---- MODULE Spec2Model ----
(***************************************************************************)
(* fileclip: a requester (container side) and a watcher (host side) that   *)
(* exchange request and result files through a shared mailbox directory.   *)
(*                                                                         *)
(* Strings that the code inspects character by character (paths) are      *)
(* sequences of one-character strings; file names are sequences of tokens  *)
(* ("fileclip_", "results_", <id>, ".json").                               *)
(***************************************************************************)
EXTENDS Integers, Sequences, FiniteSets, TLC

\* Python's None.
None == "None"

(***************************************************************************)
(* String helpers (str methods used by file_clip.py).                      *)
(***************************************************************************)
SetMin(S) == CHOOSE x \in S : \A y \in S : x <= y
SetMax(S) == CHOOSE x \in S : \A y \in S : x >= y

\* str.startswith
StartsWith(s, pre) == Len(pre) <= Len(s) /\ SubSeq(s, 1, Len(pre)) = pre

\* str.lstrip(chars)
LStrip(s, chars) ==
    LET keep == {i \in 1..Len(s) : s[i] \notin chars}
    IN  IF keep = {} THEN <<>> ELSE SubSeq(s, SetMin(keep), Len(s))

\* str.rstrip(chars)
RStrip(s, chars) ==
    LET keep == {i \in 1..Len(s) : s[i] \notin chars}
    IN  IF keep = {} THEN <<>> ELSE SubSeq(s, 1, SetMax(keep))

\* str.replace(a, b) for one-character a and b
Replace(s, a, b) == [i \in 1..Len(s) |-> IF s[i] = a THEN b ELSE s[i]]

\* str.split on any of the separators, empty components kept
RECURSIVE SplitOn(_, _)
SplitOn(s, seps) ==
    IF s = <<>> THEN << <<>> >>
    ELSE LET rest == SplitOn(Tail(s), seps)
         IN  IF Head(s) \in seps
             THEN << <<>> >> \o rest
             ELSE << <<Head(s)>> \o Head(rest) >> \o Tail(rest)

\* sep.join(parts)
RECURSIVE Join(_, _)
Join(parts, sep) ==
    IF parts = <<>> THEN <<>>
    ELSE IF Len(parts) = 1 THEN Head(parts)
    ELSE Head(parts) \o sep \o Join(Tail(parts), sep)

(***************************************************************************)
(* pathlib on the container side (POSIX).  The working directory of the    *)
(* requester is the container workspace.                                   *)
(***************************************************************************)
Slash == "/"
Backslash == "\\"
Dot == "."

Cwd == <<"/", "w">>

\* Stack discipline of resolve(): "" and "." are dropped, ".." pops.
RECURSIVE Collapse(_, _)
Collapse(parts, stack) ==
    IF parts = <<>> THEN stack
    ELSE LET c == Head(parts)
         IN  IF c = <<>> \/ c = <<Dot>> THEN Collapse(Tail(parts), stack)
             ELSE IF c = <<Dot, Dot>>
                  THEN Collapse(Tail(parts),
                                IF stack = <<>> THEN stack
                                ELSE SubSeq(stack, 1, Len(stack) - 1))
                  ELSE Collapse(Tail(parts), Append(stack, c))

\* Components of the absolute canonical form of p.
Components(p) ==
    LET abs == IF StartsWith(p, <<Slash>>) THEN p ELSE Cwd \o <<Slash>> \o p
    IN  Collapse(SplitOn(abs, {Slash}), <<>>)

\* str(Path(p).resolve()) on POSIX (the model's file system has no symlinks).
Resolve(p) == <<Slash>> \o Join(Components(p), <<Slash>>)

(***************************************************************************)
(* Path translation and validation (file_clip.py).                        *)
(***************************************************************************)
\* The containment test both functions use: a prefix test on the strings.
IsUnderWorkspace(container_path, container_workspace) ==
    StartsWith(Resolve(container_path), Resolve(container_workspace))

\* translate_path: [err |-> "none", path |-> host path] or err = "ValueError".
translate_path(container_path, container_workspace, host_workspace) ==
    LET cp  == Resolve(container_path)
        cw  == Resolve(container_workspace)
        rel == Replace(LStrip(SubSeq(cp, Len(cw) + 1, Len(cp)), {Slash, Backslash}),
                       Slash, Backslash)
        hw  == Replace(host_workspace, Slash, Backslash)
    IN  IF ~IsUnderWorkspace(container_path, container_workspace)
        THEN [err |-> "ValueError", path |-> <<>>]
        ELSE [err |-> "none", path |-> RStrip(hw, {Backslash}) \o <<Backslash>> \o rel]

\* validate_path (resolve() raises on none of the model's paths).
validate_path(path, container_workspace) ==
    IsUnderWorkspace(path, container_workspace)

(***************************************************************************)
(* The file systems.  The container sees the workspace at /w; the host     *)
(* sees the same directory at its own root.  /w2 and /e are container      *)
(* directories outside the workspace.                                      *)
(***************************************************************************)
P_wf  == <<"/", "w", "/", "f">>
P_wg  == <<"/", "w", "/", "s", "/", "g">>
P_w2f == <<"/", "w", "2", "/", "f">>
P_ef  == <<"/", "e", "/", "f">>
P_wn  == <<"/", "w", "/", "n">>
P_ws  == <<"/", "w", "/", "s">>
P_rel == <<"f">>
P_dd  == <<"/", "w", "/", ".", ".", "/", "e", "/", "f">>
P_w   == <<"/", "w">>

ContainerWorkspace == <<"/", "w">>
WinHostWorkspace   == <<"C", ":", "\\", "h">>
PosixHostWorkspace == <<"/", "h">>

\* Regular files of the container (absolute canonical names).
ContainerFiles == {P_wf, P_wg, P_w2f, P_ef}

\* Path(p).resolve().is_file() in the container.
IsFile(p) == Resolve(p) \in ContainerFiles

\* The workspace files as the host names them.
HostFiles(host_workspace) ==
    LET sep == IF Backslash \in {host_workspace[i] : i \in 1..Len(host_workspace)}
               THEN Backslash ELSE Slash
    IN  { host_workspace \o <<sep>> \o
              Replace(SubSeq(f, Len(ContainerWorkspace) + 2, Len(f)), Slash, sep)
          : f \in {g \in ContainerFiles :
                      StartsWith(g, ContainerWorkspace \o <<Slash>>)} }

\* Path(path).is_file() on the host.
HostIsFile(path, host_workspace) == path \in HostFiles(host_workspace)

(***************************************************************************)
(* The mailbox: file name -> content.  A file that is open for writing and *)
(* not yet closed holds an incomplete JSON text.                           *)
(***************************************************************************)
Partial == [complete |-> FALSE]

Put(mb, name, content) ==
    [n \in DOMAIN mb \cup {name} |-> IF n = name THEN content ELSE mb[n]]

Del(mb, name) == [n \in DOMAIN mb \ {name} |-> mb[n]]

\* dict.get(key): None when the key is absent
Get(d, key) == IF key \in DOMAIN d THEN d[key] ELSE None

\* dict.get(key, default)
GetOr(d, key, default) == IF key \in DOMAIN d THEN d[key] ELSE default

\* f"fileclip_{request_id}.json"
RequestName(request_id) == <<"fileclip_", request_id, ".json">>

\* (variant: the result is named after the id in the request file's name)
ResultNameOfRequestFile(request_id) == <<"fileclip_", "results_", "u2", ".json">>

\* f"fileclip_results_{request_id}.json"
ResultName(request_id) == <<"fileclip_", "results_", request_id, ".json">>

\* f"container_{socket.gethostname()}_{os.getpid()}"
Sender == "container_host_pid"

\* uuid.uuid4() of check_watcher and of write_fileclip_json
PingId == "u1"
CopyId == "u2"

ping_data == [complete |-> TRUE, action |-> "ping", sender |-> Sender,
              request_id |-> PingId]

request_data(paths) ==
    [complete |-> TRUE, action |-> "copy_files", sender |-> Sender,
     request_id |-> CopyId, paths |-> paths]

(***************************************************************************)
(* Bounds and inputs.                                                      *)
(***************************************************************************)
MaxPaths == 2

PathPool == {P_rel, P_w2f, P_ef, P_wn, P_ws}

PathLists == UNION {[1..n -> PathPool] : n \in 0..MaxPaths}

\* An unset (or empty) environment value.
Unset == <<>>

VARIABLES
    env,      \* the environment of the requester and whether a watcher observes
    observer, \* the watcher's observer as its main() has left it
    mailbox,  \* the shared directory
    evq,      \* creation events queued for the watcher's handler
    rq,       \* the requester: one copy_files call
    w,        \* the watcher's handler
    clip,     \* the direct clipboard writes performed, in order
    passes,   \* the files handed to process_file, in order
    hist,     \* facts about the run so far (history)
    tp        \* inputs and results of the path functions called on their own

vars == <<env, observer, mailbox, evq, rq, w, clip, passes, hist, tp>>

(***************************************************************************)
(* copy_files, lines 180-209: validation, mode selection, translation.     *)
(***************************************************************************)
\* os.getenv("FILECLIP_USE_WATCHER", default).lower() == "true"
use_watcher_env(e) ==
    (IF e.FILECLIP_USE_WATCHER = None
     THEN (IF e.is_container THEN "true" ELSE "false")
     ELSE e.FILECLIP_USE_WATCHER) = "true"

\* (variant: the mode is chosen without asking whether this is a container)
WatcherModeAnywhere(use_watcher, e) ==
    IF use_watcher = None THEN use_watcher_env(e) ELSE use_watcher = "true"

\* is_container() and use_watcher
WatcherMode(use_watcher, e) ==
    e.is_container /\ (IF use_watcher = None THEN use_watcher_env(e)
                       ELSE use_watcher = "true")

\* (variant: one configured root is taken to be enough)
RootsConfiguredEither(e) ==
    e.container_workspace # Unset \/ e.host_workspace # Unset

\* container_workspace and host_workspace (line 201)
RootsConfigured(e) == e.container_workspace # Unset /\ e.host_workspace # Unset

\* is_file() of the side that runs copy_files
SideIsFile(side, p, e) ==
    IF side = "container" THEN IsFile(p) ELSE HostIsFile(p, e.host_workspace)

\* str(Path(p).resolve()) of that side; the host paths the watcher passes on
\* are absolute canonical host names already.
SideResolve(side, p) == IF side = "container" THEN Resolve(p) ELSE p

\* (variant: entries that are no regular files are skipped)
ValidatePathsSkipping(side, file_paths, e) ==
    [ok |-> TRUE, bad |-> 0,
     valid_paths |->
        LET good == SelectSeq(file_paths, LAMBDA p : SideIsFile(side, p, e))
        IN  [i \in 1..Len(good) |-> SideResolve(side, good[i])]]

\* The validation loop: the resolved paths, or the first invalid entry.
ValidatePaths(side, file_paths, e) ==
    LET bad == {i \in 1..Len(file_paths) : ~SideIsFile(side, file_paths[i], e)}
    IN  IF bad # {}
        THEN [ok |-> FALSE, bad |-> SetMin(bad), valid_paths |-> <<>>]
        ELSE [ok |-> TRUE, bad |-> 0,
              valid_paths |-> [i \in 1..Len(file_paths) |->
                                  SideResolve(side, file_paths[i])]]

\* (variant: the configuration is checked before the list is found empty)
CopyFilesPlanConfigFirst(side, file_paths, use_watcher, e) ==
    LET v     == ValidatePaths(side, file_paths, e)
        valid == v.valid_paths
        base  == [kind |-> "direct", valid_paths |-> valid, translated |-> <<>>]
    IN  IF ~v.ok THEN [base EXCEPT !.kind = "FileNotFoundError"]
        ELSE IF WatcherMode(use_watcher, e) /\ ~RootsConfigured(e)
             THEN [base EXCEPT !.kind = "ValueError_config"]
        ELSE IF valid = <<>> THEN [base EXCEPT !.kind = "return_false"]
        ELSE IF ~WatcherMode(use_watcher, e) THEN base
        ELSE IF \E i \in 1..Len(valid) : ~validate_path(valid[i], e.container_workspace)
             THEN [base EXCEPT !.kind = "ValueError_scope"]
        ELSE [base EXCEPT !.kind = "watcher",
                          !.translated =
                              [i \in 1..Len(valid) |->
                                  translate_path(valid[i], e.container_workspace,
                                                 e.host_workspace).path]]

\* What the call does after its local checks.
CopyFilesPlan(side, file_paths, use_watcher, e) ==
    LET v     == ValidatePaths(side, file_paths, e)
        valid == v.valid_paths
        base  == [kind |-> "direct", valid_paths |-> valid, translated |-> <<>>]
    IN  IF ~v.ok THEN [base EXCEPT !.kind = "FileNotFoundError"]
        ELSE IF valid = <<>> THEN [base EXCEPT !.kind = "return_false"]
        ELSE IF ~WatcherMode(use_watcher, e) THEN base
        ELSE IF ~RootsConfigured(e)
             THEN [base EXCEPT !.kind = "ValueError_config"]
        ELSE IF \E i \in 1..Len(valid) : ~validate_path(valid[i], e.container_workspace)
             THEN [base EXCEPT !.kind = "ValueError_scope"]
        ELSE [base EXCEPT !.kind = "watcher",
                          !.translated =
                              [i \in 1..Len(valid) |->
                                  translate_path(valid[i], e.container_workspace,
                                                 e.host_workspace).path]]

(***************************************************************************)
(* Initial state: nothing called yet, an empty mailbox, a watcher that is  *)
(* either observing the mailbox or was never started.                      *)
(***************************************************************************)
\* (The watcher of the full protocol runs on a plain host; SpecWatcher also runs
\* it on a host that is_container() takes for a container.)
Environments ==
    [is_container : BOOLEAN,
     host_is_container : {FALSE},
     FILECLIP_USE_WATCHER : {None, "true", "false"},
     container_workspace : {Unset, ContainerWorkspace},
     host_workspace : {Unset, WinHostWorkspace, PosixHostWorkspace},
     watching : BOOLEAN]

\* The path functions have not been called on their own.
TpIdle ==
    [path |-> <<>>, container_workspace |-> <<>>, host_workspace |-> <<>>,
     translated |-> [err |-> "unset", path |-> <<>>], validated |-> "unset"]

EmptyMailbox == [n \in {} |-> Partial]

RqInit ==
    [pc |-> "idle", file_paths |-> <<>>, use_watcher |-> None,
     valid_paths |-> <<>>, translated |-> <<>>,
     snap |-> FALSE, found |-> FALSE, results |-> Partial,
     probe |-> "none", timed_out |-> FALSE, ret |-> "none", err |-> "none",
     printed |-> <<>>]

WInit ==
    [pc |-> "idle", file_path |-> <<>>, request_id |-> None,
     result |-> Partial, valid_paths |-> <<>>, errors |-> <<>>,
     wrote |-> FALSE, in_except |-> FALSE, attempts |-> 0]

Init ==
    /\ env \in Environments
    /\ observer = IF env.watching THEN "started" ELSE "none"
    /\ mailbox = EmptyMailbox
    /\ evq = <<>>
    /\ rq = RqInit
    /\ w = WInit
    /\ clip = <<>>
    /\ passes = <<>>
    /\ hist = {}
    /\ tp = TpIdle

\* (variant: the observer reports every open for writing as a creation)
OpenAlwaysReported(name) ==
    /\ mailbox' = Put(mailbox, name, Partial)
    /\ evq' = IF env.watching /\ observer = "started"
              THEN Append(evq, name) ELSE evq

\* open(name, "w") in the mailbox: the file exists, empty, from here on; the
\* watcher's observer queues a creation event when the name is new.
Open(name) ==
    /\ mailbox' = Put(mailbox, name, Partial)
    /\ evq' = IF name \notin DOMAIN mailbox /\ env.watching /\ observer = "started"
              THEN Append(evq, name) ELSE evq

\* (variant: the text written is never completed)
CloseTruncated(name, content) == mailbox' = mailbox

\* json.dump and close: the content is complete (the text of a file that was
\* unlinked meanwhile is lost with it).
Close(name, content) ==
    mailbox' = IF name \in DOMAIN mailbox THEN Put(mailbox, name, content)
               ELSE mailbox

\* The outcomes of _copy_files_direct: True, False (no display), RuntimeError.
ClipOutcomes == {"true", "false", "raise"}

(***************************************************************************)
(* The requester: copy_files.                                              *)
(***************************************************************************)
\* (variant: the fallback is given the translated host paths)
FallbackPathsTranslated(r) == r.translated

\* The paths of the fallback direct write.
FallbackPaths(r) == r.valid_paths

\* Lines 180-214: the local checks, up to the probe.
CopyFiles(file_paths, use_watcher) ==
    /\ rq.pc = "idle"
    /\ LET plan == CopyFilesPlan("container", file_paths, use_watcher, env)
           k    == plan.kind
       IN  rq' = [rq EXCEPT
                    !.file_paths = file_paths,
                    !.use_watcher = use_watcher,
                    !.valid_paths = plan.valid_paths,
                    !.translated = plan.translated,
                    !.pc = IF k = "watcher" THEN "ping_open"
                           ELSE IF k = "direct" THEN "direct" ELSE "done",
                    !.ret = IF k = "return_false" THEN "false" ELSE "none",
                    !.err = IF k \in {"FileNotFoundError", "ValueError_config",
                                      "ValueError_scope"} THEN k ELSE "none"]
    /\ UNCHANGED <<env, observer, tp, hist, mailbox, evq, w, clip, passes>>

\* check_watcher, lines 121-131: open the ping file; an OSError returns False.
CheckWatcherOpen ==
    /\ rq.pc = "ping_open"
    /\ \/ /\ Open(RequestName(PingId))
          /\ rq' = [rq EXCEPT !.pc = "ping_dump"]
          /\ UNCHANGED hist
       \/ /\ rq' = [rq EXCEPT !.pc = "direct", !.probe = "false"]
          /\ hist' = hist \cup {[fact |-> "oserror", id |-> None, ok |-> FALSE]}
          /\ UNCHANGED <<mailbox, evq>>
    /\ UNCHANGED <<env, observer, tp, w, clip, passes>>

CheckWatcherDump ==
    /\ rq.pc = "ping_dump"
    /\ Close(RequestName(PingId), ping_data)
    /\ rq' = [rq EXCEPT !.pc = "ping_poll"]
    /\ UNCHANGED <<env, observer, tp, hist, evq, w, clip, passes>>

\* check_watcher(shared_dir) is called with its default timeout (line 112),
\* wait_for_results with watcher_timeout, 10.0 unless the caller gives another
\* (line 166).
ProbeTimeout == "5.0"

WatcherTimeout == "10.0"

\* (variant: the loop condition never fails)
DeadlineNeverPasses(timeout) == FALSE

\* while time.time() - start_time < timeout (lines 94 and 132): with a finite
\* timeout the condition fails at some poll.
DeadlinePasses(timeout) == timeout \in {ProbeTimeout, WatcherTimeout}

\* (variant: the probe takes the ping for consumed without looking)
PingAssumedGone(mb) == TRUE

\* not ping_file.exists() (line 134)
PingGone(mb) == RequestName(PingId) \notin DOMAIN mb

\* (variant: the ping file is left behind)
UnlinkPingSkipped(mb) == mb

\* finally: ping_file.unlink(missing_ok=True) (lines 140-141)
UnlinkPing(mb) == Del(mb, RequestName(PingId))

\* check_watcher, lines 132-141: the ping file is gone (True), or the probe
\* timeout expires (False); the finally clause unlinks the ping file.
CheckWatcherPoll ==
    /\ rq.pc = "ping_poll"
    /\ \/ /\ PingGone(mailbox)
          /\ rq' = [rq EXCEPT !.pc = "req_open", !.probe = "true"]
          /\ mailbox' = UnlinkPing(mailbox)
       \/ /\ DeadlinePasses(ProbeTimeout)
          /\ rq' = [rq EXCEPT !.pc = "direct", !.probe = "false",
                              !.timed_out = TRUE]
          /\ mailbox' = UnlinkPing(mailbox)
    /\ UNCHANGED <<env, observer, tp, hist, evq, w, clip, passes>>

\* write_fileclip_json
WriteRequestOpen ==
    /\ rq.pc = "req_open"
    /\ Open(RequestName(CopyId))
    /\ rq' = [rq EXCEPT !.pc = "req_dump"]
    /\ UNCHANGED <<env, observer, tp, hist, w, clip, passes>>

WriteRequestDump ==
    /\ rq.pc = "req_dump"
    /\ Close(RequestName(CopyId), request_data(rq.translated))
    /\ rq' = [rq EXCEPT !.pc = "obs_start"]
    /\ UNCHANGED <<env, observer, tp, hist, evq, w, clip, passes>>

\* wait_for_results, lines 87-92: the polling observer takes its first snapshot.
ObserverStart ==
    /\ rq.pc = "obs_start"
    /\ rq' = [rq EXCEPT !.pc = "wait",
                        !.snap = ResultName(CopyId) \in DOMAIN mailbox]
    /\ UNCHANGED <<env, observer, tp, hist, mailbox, evq, w, clip, passes>>

\* The polling observer compares the directory with its last snapshot;
\* ResultsHandler.on_created sets "found" for the result name.
ObserverTick ==
    /\ rq.pc = "wait"
    /\ LET present == ResultName(CopyId) \in DOMAIN mailbox
       IN  /\ present # rq.snap
           /\ rq' = [rq EXCEPT !.snap = present,
                               !.found = rq.found \/ present]
    /\ UNCHANGED <<env, observer, tp, hist, mailbox, evq, w, clip, passes>>

TimeoutRecord ==
    [complete |-> TRUE, success |-> FALSE,
     message |-> <<"Timeout waiting for results after ", "timeout", "s">>]

\* (variant: a failed result is returned as it is, without the fallback)
AfterResultsNoFallback(results) ==
    [pc |-> "done",
     ret |-> IF GetOr(results, "success", FALSE) THEN "true" ELSE "false"]

\* (variant: the direct write is made whatever the result says)
AfterResultsAlwaysFallback(results) == [pc |-> "direct", ret |-> "none"]

\* copy_files, lines 222-229: return True, or fall back to the direct write.
AfterResults(results) ==
    IF GetOr(results, "success", FALSE) THEN [pc |-> "done", ret |-> "true"]
    ELSE [pc |-> "direct", ret |-> "none"]

\* copy_files, lines 222-228: what the call prints about the result.
Printed(results) ==
    IF GetOr(results, "success", FALSE)
    THEN << <<"Files copied to clipboard via watcher: ", GetOr(results, "message", <<>>)>> >>
    ELSE << <<"Watcher failed: ", GetOr(results, "message", <<"Unknown error">>)>> >>
         \o [i \in 1..Len(GetOr(results, "errors", <<>>)) |->
                <<"Error: ", GetOr(results, "errors", <<>>)[i]>>]

\* (variant: the requester removes its request together with the result)
ConsumeResultAndRequest(mb) ==
    Del(Del(mb, ResultName(CopyId)), RequestName(CopyId))

\* (variant: the result file is left where it was read)
ConsumeResultKept(mb) == mb

\* results_path.unlink(missing_ok=True) (line 100)
ConsumeResult(mb) == Del(mb, ResultName(CopyId))

\* (variant: whatever text the file holds is taken for the result)
JsonLoadsAnyText(content) == TRUE

\* json.load (line 98) returns for a complete text; the text of a file that
\* is still being written ends early and raises JSONDecodeError.
JsonLoads(content) == content.complete

\* wait_for_results, lines 94-110, and the decision of copy_files on its
\* return value.  A read that does not decode is retried at the next poll.
WaitForResults ==
    /\ rq.pc = "wait"
    /\ \/ /\ rq.found
          /\ ResultName(CopyId) \in DOMAIN mailbox
          /\ JsonLoads(mailbox[ResultName(CopyId)])
          /\ LET data == mailbox[ResultName(CopyId)]
                 next == AfterResults(data)
             IN  rq' = [rq EXCEPT !.results = data, !.pc = next.pc,
                                  !.ret = next.ret, !.printed = Printed(data)]
          /\ mailbox' = ConsumeResult(mailbox)
       \/ /\ DeadlinePasses(WatcherTimeout)
          /\ rq' = [rq EXCEPT !.results = TimeoutRecord, !.timed_out = TRUE,
                              !.pc = AfterResults(TimeoutRecord).pc,
                              !.ret = AfterResults(TimeoutRecord).ret,
                              !.printed = Printed(TimeoutRecord)]
          /\ UNCHANGED mailbox
    /\ UNCHANGED <<env, observer, tp, hist, evq, w, clip, passes>>

\* _copy_files_direct by the requester (direct mode, or fallback).
DirectWrite ==
    /\ rq.pc = "direct"
    /\ \E o \in ClipOutcomes :
          /\ clip' = Append(clip, [by |-> "requester", paths |-> FallbackPaths(rq),
                                   outcome |-> o])
          /\ rq' = [rq EXCEPT !.pc = "done",
                              !.ret = IF o = "raise" THEN "none" ELSE o,
                              !.err = IF o = "raise" THEN "RuntimeError" ELSE "none"]
    /\ UNCHANGED <<env, observer, tp, hist, mailbox, evq, w, passes>>

(***************************************************************************)
(* The watcher: FileclipHandler and process_file (fileclip_watcher.py).    *)
(***************************************************************************)
\* PatternMatchingEventHandler(patterns=["fileclip_*.json"])
PatternMatches(name) ==
    Len(name) >= 2 /\ name[1] = "fileclip_" /\ name[Len(name)] = ".json"

\* on_created: name.startswith("fileclip_") and suffix == ".json"
OnCreatedAccepts(name) ==
    StartsWith(name, <<"fileclip_">>) /\ name[Len(name)] = ".json"

\* The environment copy_files sees when the watcher calls it: is_container()
\* is evaluated on the machine the watcher runs on.
HostEnv == [env EXCEPT !.is_container = env.host_is_container]

\* (variant: the watcher leaves the mode of its copy_files call open)
UseWatcherOfWatcherUnset == None

\* The use_watcher argument of the watcher's call (line 97).
UseWatcherOfWatcher == "false"

\* (variant: the placeholder result keeps an empty sender and request_id)
UnknownResultUnnamed(message) ==
    [complete |-> TRUE, sender |-> None, request_id |-> None,
     success |-> FALSE, message |-> message, errors |-> <<>>]

\* The result of the two except clauses (lines 119 and 124).
UnknownResult(message) ==
    [complete |-> TRUE, sender |-> "unknown", request_id |-> "unknown",
     success |-> FALSE, message |-> message, errors |-> <<>>]

\* The handler takes the next creation event; matching names go to process_file.
Dispatch ==
    /\ w.pc = "idle"
    /\ observer = "started"
    /\ evq # <<>>
    /\ evq' = Tail(evq)
    /\ IF PatternMatches(Head(evq)) /\ OnCreatedAccepts(Head(evq))
       THEN /\ w' = [w EXCEPT !.pc = "parse", !.file_path = Head(evq)]
            /\ passes' = Append(passes, Head(evq))
       ELSE UNCHANGED <<w, passes>>
    /\ UNCHANGED <<env, observer, tp, hist, mailbox, rq, clip>>

\* (variant: the listed paths are passed on without the is_file() test)
HostValidPathsUnchecked(paths, host_workspace) == paths

\* The loop of lines 80-86: the paths that are regular files, in request order.
HostValidPaths(paths, host_workspace) ==
    SelectSeq(paths, LAMBDA p : HostIsFile(p, host_workspace))

\* (variant: the diagnostics of the invalid paths are dropped)
HostPathErrorsMasked(paths, host_workspace) == <<>>

\* The loop of lines 80-86: one diagnostic per path that is no regular file.
HostPathErrors(paths, host_workspace) ==
    LET bad == SelectSeq(paths, LAMBDA p : ~HostIsFile(p, host_workspace))
    IN  [i \in 1..Len(bad) |-> <<"Invalid or inaccessible path: ", bad[i]>>]

\* (variant: the fields are not looked at before the action is dispatched)
MissingFieldIgnored(request_id, sender) == FALSE

\* not request_id or not sender (line 60)
MissingField(request_id, sender) == request_id = None \/ sender = None

\* The result process_file builds for decoded data, lines 55-94 and 111-115,
\* and whether the clipboard write is still to be made.
ProcessData(data) ==
    LET request_id == Get(data, "request_id")
        sender     == Get(data, "sender")
        action     == Get(data, "action")
        paths      == GetOr(data, "paths", <<>>)
        valid      == HostValidPaths(paths, env.host_workspace)
        errors     == HostPathErrors(paths, env.host_workspace)
        result     == [complete |-> TRUE, sender |-> sender, request_id |-> request_id,
                       success |-> FALSE, message |-> <<"">>, errors |-> <<>>]
        base       == [pc |-> "write_open", request_id |-> request_id,
                       result |-> result, valid_paths |-> <<>>, errors |-> <<>>]
    IN  IF MissingField(request_id, sender)
        THEN [base EXCEPT !.result.message = <<"Missing request_id or sender">>]
        ELSE IF action = "ping"
        THEN [base EXCEPT !.result.success = TRUE,
                          !.result.message = <<"Ping acknowledged">>]
        ELSE IF action = "copy_files"
        THEN IF valid = <<>>
             THEN [base EXCEPT !.result.message = <<"No valid files to copy">>,
                               !.result.errors = errors]
             ELSE [base EXCEPT !.pc = "clip", !.valid_paths = valid,
                               !.errors = errors]
        ELSE [base EXCEPT !.result.message = <<"Unknown action: ", action>>]

\* process_file, lines 50-53 and the except clauses: read and decode the file.
ProcessFile ==
    /\ w.pc = "parse"
    /\ LET next ==
             IF w.file_path \notin DOMAIN mailbox
             THEN [pc |-> "write_open", request_id |-> "unknown",
                   result |-> UnknownResult(<<"Error: ", "FileNotFoundError">>),
                   valid_paths |-> <<>>, errors |-> <<>>]
             ELSE IF ~mailbox[w.file_path].complete
             THEN [pc |-> "write_open", request_id |-> "unknown",
                   result |-> UnknownResult(<<"Invalid JSON">>),
                   valid_paths |-> <<>>, errors |-> <<>>]
             ELSE ProcessData(mailbox[w.file_path])
       IN  w' = [w EXCEPT !.pc = next.pc, !.request_id = next.request_id,
                          !.result = next.result, !.valid_paths = next.valid_paths,
                          !.errors = next.errors,
                          !.in_except = (w.file_path \notin DOMAIN mailbox
                                         \/ ~mailbox[w.file_path].complete)]
    /\ UNCHANGED <<env, observer, tp, hist, mailbox, evq, rq, clip, passes>>

\* A str(n) for the small counts of the model.
NumStr(n) == CASE n = 0 -> "0" [] n = 1 -> "1" [] n = 2 -> "2" [] n = 3 -> "3"
               [] n = 4 -> "4" [] OTHER -> "many"

\* (variant: success is reported whatever the write returned)
ResultSuccessAssumed(o) == TRUE

\* result["success"] = success (line 98); it stays False when the write raises.
ResultSuccess(o) == o = "true"

\* process_file, lines 96-106: copy_files(valid_paths, use_watcher=False).
WatcherCopy ==
    /\ w.pc = "clip"
    /\ LET plan == CopyFilesPlan("host", w.valid_paths, UseWatcherOfWatcher, HostEnv)
       IN  IF plan.kind = "direct"
           THEN \E o \in ClipOutcomes :
                  /\ clip' = Append(clip, [by |-> "watcher", paths |-> plan.valid_paths,
                                           outcome |-> o])
                  /\ w' = [w EXCEPT
                        !.pc = "write_open",
                        !.result.success = ResultSuccess(o),
                        !.result.message =
                            IF o = "true"
                            THEN <<"Copied ", NumStr(Len(w.valid_paths)), " file(s)">>
                            ELSE IF o = "false" THEN <<"Failed to copy files">>
                            ELSE <<"Failed to copy files: ", "RuntimeError">>,
                        !.result.errors =
                            IF o = "raise"
                            THEN Append(w.errors, <<"RuntimeError", <<>>>>)
                            ELSE w.errors]
           ELSE /\ w' = [w EXCEPT
                        !.pc = "write_open",
                        !.result.message = <<"Failed to copy files: ", plan.kind>>,
                        !.result.errors = Append(w.errors, <<plan.kind, <<>>>>)]
                /\ UNCHANGED clip
    /\ UNCHANGED <<env, observer, tp, hist, mailbox, evq, rq, passes>>

\* write_result: open the result file; an OSError is logged and that is all.
WriteResultOpen ==
    /\ w.pc = "write_open"
    /\ \/ /\ Open(ResultName(w.request_id))
          /\ w' = [w EXCEPT !.pc = "write_dump", !.attempts = w.attempts + 1]
          /\ UNCHANGED hist
       \/ /\ w' = [w EXCEPT !.pc = "unlink", !.attempts = w.attempts + 1]
          /\ hist' = hist \cup {[fact |-> "oserror", id |-> None, ok |-> FALSE]}
          /\ UNCHANGED <<mailbox, evq>>
    /\ UNCHANGED <<env, observer, tp, rq, clip, passes>>

WriteResultDump ==
    /\ w.pc = "write_dump"
    /\ Close(ResultName(w.request_id), w.result)
    /\ w' = [w EXCEPT !.pc = "unlink", !.wrote = TRUE]
    /\ hist' = IF ResultName(w.request_id) \in DOMAIN mailbox /\ ~rq.timed_out
               THEN hist \cup {[fact |-> "result_in_time", id |-> w.request_id,
                                ok |-> w.result.success]}
               ELSE hist
    /\ UNCHANGED <<env, observer, tp, evq, rq, clip, passes>>

\* (variant: the request file is left in the mailbox)
UnlinkSkipped(mb, file_path) == mb

\* file_path.unlink(missing_ok=True)
Unlink(mb, file_path) == Del(mb, file_path)

\* The last statement of every branch of process_file: the pass is over.
UnlinkRequest ==
    /\ w.pc = "unlink"
    /\ mailbox' = Unlink(mailbox, w.file_path)
    /\ w' = WInit
    /\ UNCHANGED <<env, observer, tp, hist, evq, rq, clip, passes>>

(***************************************************************************)
(* The system.                                                             *)
(***************************************************************************)
Next ==
    \/ \E file_paths \in PathLists, use_watcher \in {None, "true", "false"} :
          CopyFiles(file_paths, use_watcher)
    \/ CheckWatcherOpen
    \/ CheckWatcherDump
    \/ CheckWatcherPoll
    \/ WriteRequestOpen
    \/ WriteRequestDump
    \/ ObserverStart
    \/ ObserverTick
    \/ WaitForResults
    \/ DirectWrite
    \/ Dispatch
    \/ ProcessFile
    \/ WatcherCopy
    \/ WriteResultOpen
    \/ WriteResultDump
    \/ UnlinkRequest

Spec == Init /\ [][Next]_vars

(***************************************************************************)
(* The path functions on their own: translate_path and validate_path       *)
(* applied to inputs drawn from small sets.                                *)
(***************************************************************************)
TpPaths == {P_wf, P_wg, P_w2f, P_ef, P_w, P_dd, P_rel, P_wn}

TpContainerRoots == {ContainerWorkspace, ContainerWorkspace \o <<Slash>>,
                     <<"/", "e">>}

TpHostRoots == {WinHostWorkspace, WinHostWorkspace \o <<Backslash>>,
                PosixHostWorkspace, <<"C", ":", "/", "h">>}

InitPath ==
    /\ env = [is_container |-> FALSE, host_is_container |-> FALSE,
              FILECLIP_USE_WATCHER |-> None,
              container_workspace |-> Unset, host_workspace |-> Unset,
              watching |-> FALSE]
    /\ observer = "none"
    /\ mailbox = EmptyMailbox
    /\ evq = <<>>
    /\ rq = RqInit
    /\ w = WInit
    /\ clip = <<>>
    /\ passes = <<>>
    /\ hist = {}
    /\ \E p \in TpPaths, cw \in TpContainerRoots, hw \in TpHostRoots :
          tp = [TpIdle EXCEPT !.path = p, !.container_workspace = cw,
                              !.host_workspace = hw]

TranslatePath ==
    /\ tp.translated.err = "unset"
    /\ tp' = [tp EXCEPT !.translated =
                 translate_path(tp.path, tp.container_workspace, tp.host_workspace)]
    /\ UNCHANGED <<env, observer, mailbox, evq, rq, w, clip, passes, hist>>

ValidatePath ==
    /\ tp.validated = "unset"
    /\ tp' = [tp EXCEPT !.validated =
                 IF validate_path(tp.path, tp.container_workspace)
                 THEN "true" ELSE "false"]
    /\ UNCHANGED <<env, observer, mailbox, evq, rq, w, clip, passes, hist>>

NextPath == TranslatePath \/ ValidatePath

SpecPath == InitPath /\ [][NextPath]_vars

(***************************************************************************)
(* The watcher on its own: one request file of any content lies in the     *)
(* mailbox, its creation event is queued, and the notification may be      *)
(* delivered again.                                                        *)
(***************************************************************************)
MaxRequestPaths == 3

MaxRedeliver == 2

\* Host paths: two regular files, a missing file, a directory.
HP_f == WinHostWorkspace \o <<Backslash, "f">>
HP_g == WinHostWorkspace \o <<Backslash, "s", Backslash, "g">>
HP_n == WinHostWorkspace \o <<Backslash, "n">>
HP_s == WinHostWorkspace \o <<Backslash, "s">>

HostPathPool == {HP_f, HP_g, HP_n, HP_s}

HostPathLists == UNION {[1..n -> HostPathPool] : n \in 0..MaxRequestPaths}

\* The request file the watcher is given.
ReqFile == RequestName(CopyId)

\* What a fileclip_<id>.json file may hold: text that does not decode, a ping,
\* copy_files requests (with and without the paths key), a request without a
\* sender, one without a request_id, one with an action the watcher does
\* not know, a ping without a sender, and a ping of another sender whose
\* request_id is not the one in the file name.
WatcherRequests ==
    {Partial}
    \cup {[complete |-> TRUE, action |-> "ping", sender |-> Sender,
           request_id |-> CopyId]}
    \cup {request_data(ps) : ps \in HostPathLists}
    \cup {[complete |-> TRUE, action |-> "copy_files", sender |-> Sender,
           request_id |-> CopyId]}
    \cup {[complete |-> TRUE, action |-> "copy_files", request_id |-> CopyId,
           paths |-> <<HP_f>>]}
    \cup {[complete |-> TRUE, action |-> "copy_files", sender |-> Sender,
           paths |-> <<HP_f>>]}
    \cup {[complete |-> TRUE, action |-> "move_files", sender |-> Sender,
           request_id |-> CopyId]}
    \cup {[complete |-> TRUE, action |-> "ping", request_id |-> CopyId]}
    \cup {[complete |-> TRUE, action |-> "ping", sender |-> "other",
           request_id |-> PingId]}

InitWatcher ==
    /\ \E hc \in BOOLEAN :
          env = [is_container |-> TRUE, host_is_container |-> hc,
                 FILECLIP_USE_WATCHER |-> None,
                 container_workspace |-> ContainerWorkspace,
                 host_workspace |-> WinHostWorkspace, watching |-> TRUE]
    /\ observer = "started"
    /\ \E data \in WatcherRequests : mailbox = Put(EmptyMailbox, ReqFile, data)
    /\ evq = <<ReqFile>>
    /\ rq = RqInit
    /\ w = WInit
    /\ clip = <<>>
    /\ passes = <<>>
    /\ hist = {}
    /\ tp = TpIdle

\* The number of times name occurs in the sequence q.
Count(q, name) == Len(SelectSeq(q, LAMBDA n : n = name))

\* The observer delivers the creation notification of the request file again;
\* on_created is called once more for the same file.
Redeliver ==
    /\ Count(passes, ReqFile) + Count(evq, ReqFile) \in 1..MaxRedeliver
    /\ evq' = Append(evq, ReqFile)
    /\ UNCHANGED <<env, observer, tp, hist, mailbox, rq, w, clip, passes>>

NextWatcher ==
    \/ Dispatch
    \/ ProcessFile
    \/ WatcherCopy
    \/ WriteResultOpen
    \/ WriteResultDump
    \/ UnlinkRequest
    \/ Redeliver

SpecWatcher == InitWatcher /\ [][NextWatcher]_vars

(***************************************************************************)
(* The watcher as a service: main() starts the observer and sleeps until   *)
(* KeyboardInterrupt, then stops and joins the observer.  A request file   *)
(* is in the mailbox at the start, another one is created later, and the   *)
(* unlink that ends a pass may fail.                                       *)
(***************************************************************************)
\* What the first request file holds.
ServiceRequests ==
    {Partial,
     [complete |-> TRUE, action |-> "ping", sender |-> Sender, request_id |-> CopyId],
     request_data(<<HP_f>>),
     request_data(<<HP_n>>),
     [complete |-> TRUE, action |-> "copy_files", request_id |-> CopyId,
      paths |-> <<HP_f>>],
     [complete |-> TRUE, action |-> "move_files", sender |-> Sender,
      request_id |-> CopyId]}

\* The request created while the watcher runs.
LaterId == "u3"

LaterFile == RequestName(LaterId)

later_data == [complete |-> TRUE, action |-> "ping", sender |-> Sender,
               request_id |-> LaterId]

InitService ==
    /\ env = [is_container |-> TRUE, host_is_container |-> FALSE,
              FILECLIP_USE_WATCHER |-> None,
              container_workspace |-> ContainerWorkspace,
              host_workspace |-> WinHostWorkspace, watching |-> TRUE]
    /\ observer = "started"
    /\ \E data \in ServiceRequests : mailbox = Put(EmptyMailbox, ReqFile, data)
    /\ evq = <<ReqFile>>
    /\ rq = RqInit
    /\ w = WInit
    /\ clip = <<>>
    /\ passes = <<>>
    /\ hist = {}
    /\ tp = TpIdle

\* The later request has been created.
LaterCreated == \E h \in hist : h.fact = "later"

\* A requester opens the later request file.
CreateLaterOpen ==
    /\ ~LaterCreated
    /\ Open(LaterFile)
    /\ hist' = hist \cup {[fact |-> "later", id |-> LaterId, ok |-> TRUE]}
    /\ UNCHANGED <<env, observer, tp, rq, w, clip, passes>>

\* ... and completes it.
CreateLaterDump ==
    /\ LaterCreated
    /\ LaterFile \in DOMAIN mailbox
    /\ ~mailbox[LaterFile].complete
    /\ Close(LaterFile, later_data)
    /\ UNCHANGED <<env, observer, tp, hist, evq, rq, w, clip, passes>>

\* file_path.unlink(missing_ok=True) raises an OSError other than
\* FileNotFoundError (the file is held open by its writer, the directory is
\* not writable).  Inside the try block (lines 64, 72, 109, 115) the error
\* is caught by "except Exception" (line 122), which writes the "unknown"
\* result and unlinks again (lines 125-126).  Inside an except clause (lines
\* 121, 126) nothing catches it: it leaves process_file and on_created, and
\* the thread that called the handler ends.
UnlinkRaises ==
    /\ w.pc = "unlink"
    /\ w.file_path \in DOMAIN mailbox
    /\ IF ~w.in_except
       THEN w' = [w EXCEPT !.pc = "write_open", !.request_id = "unknown",
                           !.result = UnknownResult(<<"Error: ", "PermissionError">>),
                           !.in_except = TRUE]
       ELSE w' = [w EXCEPT !.pc = "raised"]
    /\ hist' = hist \cup {[fact |-> "unlink_error", id |-> None, ok |-> FALSE]}
    /\ UNCHANGED <<env, observer, tp, mailbox, evq, rq, clip, passes>>

\* (variant: join returns while the handler is still in a pass)
PassFinishedAssumed(h) == TRUE

\* The thread that calls the handler is in no pass: it waits for an event or
\* it has ended.
PassFinished(h) == h.pc \in {"idle", "raised"}

\* main, lines 174-176: KeyboardInterrupt ends the sleep loop; observer.stop().
Interrupt ==
    /\ observer = "started"
    /\ observer' = "stopped"
    /\ UNCHANGED <<env, tp, hist, mailbox, evq, rq, w, clip, passes>>

\* main, lines 177-178: observer.join() returns when the observer's thread
\* has ended; "Fileclip-watcher stopped" is logged and main returns.
ObserverJoin ==
    /\ observer = "stopped"
    /\ PassFinished(w)
    /\ observer' = "joined"
    /\ UNCHANGED <<env, tp, hist, mailbox, evq, rq, w, clip, passes>>

NextService ==
    \/ Dispatch
    \/ ProcessFile
    \/ WatcherCopy
    \/ WriteResultOpen
    \/ WriteResultDump
    \/ UnlinkRequest
    \/ UnlinkRaises
    \/ CreateLaterOpen
    \/ CreateLaterDump
    \/ Interrupt
    \/ ObserverJoin

SpecService == InitService /\ [][NextService]_vars

(***************************************************************************)
(* One watcher-mode call of copy_files whose steps are taken one after     *)
(* the other without end (a sequential program that is scheduled), beside  *)
(* a watcher that may be absent, may stop at any point of a pass and may   *)
(* never write a result: no step of the watcher is required.               *)
(***************************************************************************)
InitCall ==
    /\ Init
    /\ env.is_container
    /\ env.FILECLIP_USE_WATCHER = None
    /\ env.container_workspace = ContainerWorkspace
    /\ env.host_workspace = WinHostWorkspace

\* The file lists of the call: one file, a file and a missing one.
CallPaths == {<<P_wf>>, <<P_wf, P_wn>>}

NextCall ==
    \/ \E file_paths \in CallPaths : CopyFiles(file_paths, None)
    \/ CheckWatcherOpen
    \/ CheckWatcherDump
    \/ CheckWatcherPoll
    \/ WriteRequestOpen
    \/ WriteRequestDump
    \/ ObserverStart
    \/ ObserverTick
    \/ WaitForResults
    \/ DirectWrite
    \/ Dispatch
    \/ ProcessFile
    \/ WatcherCopy
    \/ WriteResultOpen
    \/ WriteResultDump
    \/ UnlinkRequest

\* The requester's own steps.
RequesterFairness ==
    /\ WF_vars(CheckWatcherOpen)
    /\ WF_vars(CheckWatcherDump)
    /\ WF_vars(CheckWatcherPoll)
    /\ WF_vars(WriteRequestOpen)
    /\ WF_vars(WriteRequestDump)
    /\ WF_vars(ObserverStart)
    /\ WF_vars(WaitForResults)
    /\ WF_vars(DirectWrite)

SpecCall == InitCall /\ [][NextCall]_vars /\ RequesterFairness

(***************************************************************************)
(* The same call beside a watcher whose handler, once it has an event or   *)
(* is in a pass, goes on: the exchange runs to its end.                    *)
(***************************************************************************)
WatcherFairness ==
    /\ WF_vars(Dispatch)
    /\ WF_vars(ProcessFile)
    /\ WF_vars(WatcherCopy)
    /\ WF_vars(WriteResultOpen)
    /\ WF_vars(WriteResultDump)
    /\ WF_vars(UnlinkRequest)

SpecExchange ==
    InitCall /\ [][NextCall]_vars /\ RequesterFairness /\ WatcherFairness

(***************************************************************************)
(* The same call in a mailbox that already holds the result file of        *)
(* another request: the watcher wrote it (or was writing it) before it was *)
(* restarted, so that its observer has no creation event for it, and the   *)
(* requester it is meant for has not read it.                              *)
(***************************************************************************)
\* The result of the other request, as write_result dumps it.
LeftoverResult ==
    [complete |-> TRUE, sender |-> "other", request_id |-> LaterId,
     success |-> TRUE, message |-> <<"Ping acknowledged">>, errors |-> <<>>]

InitWait ==
    /\ env \in Environments
    /\ env.is_container
    /\ env.FILECLIP_USE_WATCHER = None
    /\ env.container_workspace = ContainerWorkspace
    /\ env.host_workspace = WinHostWorkspace
    /\ observer = IF env.watching THEN "started" ELSE "none"
    /\ \E content \in {LeftoverResult, Partial} :
          mailbox = Put(EmptyMailbox, ResultName(LaterId), content)
    /\ evq = <<>>
    /\ rq = RqInit
    /\ w = WInit
    /\ clip = <<>>
    /\ passes = <<>>
    /\ hist = {}
    /\ tp = TpIdle

SpecWait == InitWait /\ [][NextCall]_vars

(***************************************************************************)
(* The request on disk: write_fileclip_json names the file after the id    *)
(* and json.dump writes the text; process_file reads it with json.load.    *)
(* A text is a sequence of characters (longer tokens stand for runs of     *)
(* plain characters).                                                      *)
(***************************************************************************)
MaxJsonPaths == 2

Quote == "\""

\* json.dump's separators: ", " between items and ": " after a key.
ItemSep == <<",", " ">>

KeySep == <<":", " ">>

\* (variant: a backslash is written as it is)
EscapeCharPlain(c) == IF c = Quote THEN <<Backslash, Quote>> ELSE <<c>>

\* json.dump escapes the quote and the backslash of a string.
EscapeChar(c) ==
    IF c = Quote THEN <<Backslash, Quote>>
    ELSE IF c = Backslash THEN <<Backslash, Backslash>>
    ELSE <<c>>

RECURSIVE EscapeAll(_)
EscapeAll(str) ==
    IF str = <<>> THEN <<>> ELSE EscapeChar(Head(str)) \o EscapeAll(Tail(str))

\* A string as JSON text.
DumpString(str) == <<Quote>> \o EscapeAll(str) \o <<Quote>>

RECURSIVE DumpItems(_)
DumpItems(list) ==
    IF list = <<>> THEN <<>>
    ELSE IF Len(list) = 1 THEN DumpString(list[1])
    ELSE DumpString(list[1]) \o ItemSep \o DumpItems(Tail(list))

\* A list of strings as JSON text.
DumpList(list) == <<"[">> \o DumpItems(list) \o <<"]">>

\* json.dump(data, f) for the dict of write_fileclip_json, keys in the order
\* of lines 155-158.
DumpRequest(request_id, sender, paths) ==
    <<"{">> \o DumpString(<<"action">>) \o KeySep \o DumpString(<<"copy_files">>)
    \o ItemSep \o DumpString(<<"sender">>) \o KeySep \o DumpString(sender)
    \o ItemSep \o DumpString(<<"request_id">>) \o KeySep \o DumpString(request_id)
    \o ItemSep \o DumpString(<<"paths">>) \o KeySep \o DumpList(paths)
    \o <<"}">>

\* f"fileclip_{request_id}.json"
RequestFileName(request_id) == <<"fileclip_">> \o request_id \o <<".json">>

Failed == [ok |-> FALSE, val |-> <<>>, next |-> 0]

\* json.load, a string: the characters from position j up to the closing
\* quote; a backslash announces an escape (\\, \", \/, \n).
RECURSIVE LoadChars(_, _, _)
LoadChars(text, j, acc) ==
    IF j > Len(text) THEN Failed
    ELSE IF text[j] = Quote THEN [ok |-> TRUE, val |-> acc, next |-> j + 1]
    ELSE IF text[j] = Backslash
         THEN IF j + 1 > Len(text) THEN Failed
              ELSE IF text[j + 1] \in {Backslash, Quote, Slash}
                   THEN LoadChars(text, j + 2, Append(acc, text[j + 1]))
              ELSE IF text[j + 1] = "n"
                   THEN LoadChars(text, j + 2, Append(acc, "LF"))
              ELSE Failed
    ELSE LoadChars(text, j + 1, Append(acc, text[j]))

LoadString(text, i) ==
    IF i <= Len(text) /\ text[i] = Quote THEN LoadChars(text, i + 1, <<>>)
    ELSE Failed

\* text holds the sequence sep at position i.
At(text, i, sep) ==
    i + Len(sep) - 1 <= Len(text) /\ SubSeq(text, i, i + Len(sep) - 1) = sep

\* json.load, the items of a list after its opening bracket.
RECURSIVE LoadItems(_, _, _)
LoadItems(text, i, acc) ==
    LET item == LoadString(text, i)
    IN  IF ~item.ok THEN Failed
        ELSE IF At(text, item.next, <<"]">>)
             THEN [ok |-> TRUE, val |-> Append(acc, item.val), next |-> item.next + 1]
        ELSE IF At(text, item.next, ItemSep)
             THEN LoadItems(text, item.next + Len(ItemSep), Append(acc, item.val))
        ELSE Failed

\* json.load, a value: a string or a list of strings.
LoadValue(text, i) ==
    IF At(text, i, <<"[", "]">>) THEN [ok |-> TRUE, val |-> <<>>, next |-> i + 2]
    ELSE IF At(text, i, <<"[">>) THEN LoadItems(text, i + 1, <<>>)
    ELSE LoadString(text, i)

\* json.load, the members of an object after its opening brace: a dict.
RECURSIVE LoadMembers(_, _, _)
LoadMembers(text, i, acc) ==
    LET key == LoadString(text, i)
    IN  IF ~key.ok \/ ~At(text, key.next, KeySep) THEN Failed
        ELSE LET value == LoadValue(text, key.next + Len(KeySep))
                 dict  == [k \in DOMAIN acc \cup {key.val} |->
                              IF k = key.val THEN value.val ELSE acc[k]]
             IN  IF ~value.ok THEN Failed
                 ELSE IF At(text, value.next, <<"}">>)
                      THEN IF value.next = Len(text)
                           THEN [ok |-> TRUE, val |-> dict, next |-> value.next + 1]
                           ELSE Failed
                 ELSE IF At(text, value.next, ItemSep)
                      THEN LoadMembers(text, value.next + Len(ItemSep), dict)
                 ELSE Failed

\* data = json.load(f)
LoadRequest(text) ==
    IF At(text, 1, <<"{">>) THEN LoadMembers(text, 2, [k \in {} |-> <<>>])
    ELSE Failed

\* The strings of the round trip: request ids (str(uuid.uuid4())), senders
\* and paths, with backslashes, quotes and an n after a backslash.
JsonIds == {<<"a", "1">>, <<"1", "-", "a">>}

JsonSenders == {<<"container_", "h", "_", "1">>, <<"container_", "n", "_", "2">>}

JsonPathPool ==
    {<<"C", ":", Backslash, "n">>,
     <<"C", ":", Backslash, "h", Backslash, "f">>,
     <<"/", "w", "/", "f">>,
     <<Quote, "a">>,
     <<Backslash, Quote>>,
     <<"a", Backslash>>}

JsonPathLists == UNION {[1..n -> JsonPathPool] : n \in 0..MaxJsonPaths}

InitJson ==
    /\ env = [is_container |-> TRUE, host_is_container |-> FALSE,
              FILECLIP_USE_WATCHER |-> None,
              container_workspace |-> ContainerWorkspace,
              host_workspace |-> WinHostWorkspace, watching |-> TRUE]
    /\ observer = "none"
    /\ mailbox = EmptyMailbox
    /\ evq = <<>>
    /\ rq = RqInit
    /\ w = WInit
    /\ clip = <<>>
    /\ passes = <<>>
    /\ hist = {}
    /\ \E request_id \in JsonIds, sender \in JsonSenders, paths \in JsonPathLists :
          tp = [stage |-> "new", request_id |-> request_id, sender |-> sender,
                paths |-> paths, name |-> <<>>, text |-> <<>>,
                loaded |-> [ok |-> FALSE]]

\* write_fileclip_json: the file name and the text of the file.
JsonDump ==
    /\ tp.stage = "new"
    /\ tp' = [tp EXCEPT !.stage = "written",
                        !.name = RequestFileName(tp.request_id),
                        !.text = DumpRequest(tp.request_id, tp.sender, tp.paths)]
    /\ UNCHANGED <<env, observer, mailbox, evq, rq, w, clip, passes, hist>>

\* process_file, lines 52-57 and 76: json.load and the fields taken from it.
JsonLoad ==
    /\ tp.stage = "written"
    /\ LET data == LoadRequest(tp.text)
       IN  tp' = [tp EXCEPT
                    !.stage = "loaded",
                    !.loaded = IF ~data.ok THEN [ok |-> FALSE]
                               ELSE [ok |-> TRUE,
                                     request_id |-> Get(data.val, <<"request_id">>),
                                     sender |-> Get(data.val, <<"sender">>),
                                     action |-> Get(data.val, <<"action">>),
                                     paths |-> GetOr(data.val, <<"paths">>, <<>>)]]
    /\ UNCHANGED <<env, observer, mailbox, evq, rq, w, clip, passes, hist>>

NextJson == JsonDump \/ JsonLoad

SpecJson == InitJson /\ [][NextJson]_vars

(***************************************************************************)
(* _copy_files_direct: the command each platform builds and what the call  *)
(* does with the outcome of subprocess.run.  The utilities are drawn with  *)
(* the environment: what each of them does when it is run.                 *)
(***************************************************************************)
MaxDirectPaths == 2

DirectPathPool == {P_wf, P_wg, P_ef}

DirectPathLists == UNION {[1..n -> DirectPathPool] : n \in 1..MaxDirectPaths}

\* What subprocess.run(..., check=True, timeout=5) does with a utility.
RunOutcomes == {"ok", "CalledProcessError", "FileNotFoundError", "TimeoutExpired"}

\* ','.join(f'"{p}"' for p in file_paths) inside the powershell command
WindowsCmd(file_paths) ==
    <<"powershell.exe -Command ", Quote, "Set-Clipboard -Path ">>
    \o Join([i \in 1..Len(file_paths) |-> <<Quote>> \o file_paths[i] \o <<Quote>>],
            <<",">>)
    \o <<Quote>>

\* ', '.join(f'POSIX file "{p}"' for p in file_paths) inside the osascript command
MacCmd(file_paths) ==
    <<"osascript -e ", "'", "tell app ", Quote, "Finder", Quote,
      " to set the clipboard to ", "{">>
    \o Join([i \in 1..Len(file_paths) |->
                <<"POSIX file ", Quote>> \o file_paths[i] \o <<Quote>>],
            <<",", " ">>)
    \o <<"}", "'">>

\* (variant: only the first file is given to the utility)
UrisFirstOnly(file_paths) == <<"file://">> \o file_paths[1]

\* '\n'.join(f'file://{p}' for p in file_paths)
Uris(file_paths) ==
    Join([i \in 1..Len(file_paths) |-> <<"file://">> \o file_paths[i]], <<"LF">>)

WlCopyCmd == <<"wl-copy", "--type", "text/uri-list">>

XclipCmd == <<"xclip", "-selection", "clipboard", "-t", "text/uri-list">>

\* The platforms and utilities of a direct write: on Linux the two display
\* variables and what wl-copy and xclip do; elsewhere what the shell command
\* does (a shell command is never "not found": the shell itself runs).
DirectSettings ==
    [platform : {"linux"}, WAYLAND_DISPLAY : BOOLEAN, DISPLAY : BOOLEAN,
     wl : RunOutcomes, xc : RunOutcomes, sh : {"ok"}]
    \cup [platform : {"win32", "darwin"}, WAYLAND_DISPLAY : {FALSE}, DISPLAY : {FALSE},
          wl : {"ok"}, xc : {"ok"},
          sh : {"ok", "CalledProcessError", "TimeoutExpired"}]
    \cup [platform : {"sunos5"}, WAYLAND_DISPLAY : {FALSE}, DISPLAY : {FALSE},
          wl : {"ok"}, xc : {"ok"}, sh : {"ok"}]

InitDirect ==
    /\ env = [is_container |-> FALSE, host_is_container |-> FALSE,
              FILECLIP_USE_WATCHER |-> None,
              container_workspace |-> Unset, host_workspace |-> Unset,
              watching |-> FALSE]
    /\ observer = "none"
    /\ mailbox = EmptyMailbox
    /\ evq = <<>>
    /\ rq = RqInit
    /\ w = WInit
    /\ clip = <<>>
    /\ passes = <<>>
    /\ hist = {}
    /\ \E settings \in DirectSettings, file_paths \in DirectPathLists :
          tp = [stage |-> "start", settings |-> settings, file_paths |-> file_paths,
                runs |-> <<>>, ret |-> "none", err |-> "none", printed |-> <<>>]

\* One call of subprocess.run.
Run(cmd, input, outcome) == [cmd |-> cmd, input |-> input, outcome |-> outcome]

\* Lines 235-246 and 248-259: one shell command; a non-zero exit becomes
\* RuntimeError, TimeoutExpired is not caught.
ShellWrite(call, cmd) ==
    [call EXCEPT
        !.stage = "done",
        !.runs = Append(call.runs, Run(cmd, <<>>, call.settings.sh)),
        !.ret = IF call.settings.sh = "ok" THEN "true" ELSE "none",
        !.err = IF call.settings.sh = "ok" THEN "none"
                ELSE IF call.settings.sh = "CalledProcessError" THEN "RuntimeError"
                ELSE call.settings.sh]

WindowsWrite ==
    /\ tp.stage = "start"
    /\ tp.settings.platform = "win32"
    /\ tp' = ShellWrite(tp, WindowsCmd(tp.file_paths))
    /\ UNCHANGED <<env, observer, mailbox, evq, rq, w, clip, passes, hist>>

MacWrite ==
    /\ tp.stage = "start"
    /\ tp.settings.platform = "darwin"
    /\ tp' = ShellWrite(tp, MacCmd(tp.file_paths))
    /\ UNCHANGED <<env, observer, mailbox, evq, rq, w, clip, passes, hist>>

\* Lines 267-281: with WAYLAND_DISPLAY set, wl-copy; a non-zero exit raises,
\* a missing wl-copy or a timeout leads on to xclip.
WlCopyWrite ==
    /\ tp.stage = "start"
    /\ tp.settings.platform = "linux"
    /\ tp.settings.WAYLAND_DISPLAY
    /\ LET o == tp.settings.wl
       IN  tp' = [tp EXCEPT
                    !.stage = IF o \in {"ok", "CalledProcessError"} THEN "done" ELSE "x11",
                    !.runs = Append(tp.runs, Run(WlCopyCmd, Uris(tp.file_paths), o)),
                    !.ret = IF o = "ok" THEN "true" ELSE "none",
                    !.err = IF o = "CalledProcessError" THEN "RuntimeError" ELSE "none"]
    /\ UNCHANGED <<env, observer, mailbox, evq, rq, w, clip, passes, hist>>

\* The call stands before "if os.getenv("DISPLAY")" (line 283).
AtDisplayTest ==
    /\ tp.settings.platform = "linux"
    /\ \/ tp.stage = "x11"
       \/ tp.stage = "start" /\ ~tp.settings.WAYLAND_DISPLAY

\* What the call prints when it returns False (lines 301-305).
ManualUris(file_paths) ==
    <<"File URIs (copy manually):">>
    \o [i \in 1..Len(file_paths) |-> <<"file://">> \o file_paths[i]]

\* Lines 283-299: with DISPLAY set, xclip; a non-zero exit and a missing xclip
\* raise, a timeout ends in the return of False.
XclipWrite ==
    /\ AtDisplayTest
    /\ tp.settings.DISPLAY
    /\ LET o == tp.settings.xc
       IN  tp' = [tp EXCEPT
                    !.stage = "done",
                    !.runs = Append(tp.runs, Run(XclipCmd, Uris(tp.file_paths), o)),
                    !.ret = IF o = "ok" THEN "true"
                            ELSE IF o = "TimeoutExpired" THEN "false" ELSE "none",
                    !.err = IF o \in {"CalledProcessError", "FileNotFoundError"}
                            THEN "RuntimeError" ELSE "none",
                    !.printed = IF o = "TimeoutExpired" THEN ManualUris(tp.file_paths)
                                ELSE <<>>]
    /\ UNCHANGED <<env, observer, mailbox, evq, rq, w, clip, passes, hist>>

\* Lines 301-305: no display to try; the URIs are printed, False is returned.
NoDisplay ==
    /\ AtDisplayTest
    /\ ~tp.settings.DISPLAY
    /\ tp' = [tp EXCEPT !.stage = "done", !.ret = "false",
                        !.printed = ManualUris(tp.file_paths)]
    /\ UNCHANGED <<env, observer, mailbox, evq, rq, w, clip, passes, hist>>

\* Lines 307-308.
UnsupportedPlatform ==
    /\ tp.stage = "start"
    /\ tp.settings.platform \notin {"win32", "darwin", "linux"}
    /\ tp' = [tp EXCEPT !.stage = "done", !.err = "RuntimeError"]
    /\ UNCHANGED <<env, observer, mailbox, evq, rq, w, clip, passes, hist>>

NextDirect ==
    \/ WindowsWrite
    \/ MacWrite
    \/ WlCopyWrite
    \/ XclipWrite
    \/ NoDisplay
    \/ UnsupportedPlatform

SpecDirect == InitDirect /\ [][NextDirect]_vars

(***************************************************************************)
(* Directory-tree containment, the reading of "under the workspace" that   *)
(* the path claims use.                                                    *)
(***************************************************************************)
\* p is root or a descendant of root: root's components lead p's components.
IsDescendant(p, root) == StartsWith(Components(p), Components(root))

\* The components of p below root.
RelComponents(p, root) ==
    SubSeq(Components(p), Len(Components(root)) + 1, Len(Components(p)))

\* The separator convention of a root: backslash when it uses one, else the
\* separator of the operating system (POSIX).
SepOf(root) ==
    IF Backslash \in {root[i] : i \in 1..Len(root)} THEN Backslash ELSE Slash

\* root followed by the components of rel, in root's own convention.
JoinUnder(root, rel) ==
    RStrip(root, {SepOf(root)}) \o <<SepOf(root)>> \o Join(rel, <<SepOf(root)>>)

\* C8 (as claimed): translate_path rejects a path exactly when it is neither the
\* source root nor a descendant of it in the directory tree, and validate_path
\* returns false for exactly the paths translate_path rejects.
C8_RejectsExactlyNonDescendants ==
    /\ tp.translated.err # "unset" =>
          ((tp.translated.err = "ValueError")
              <=> ~IsDescendant(tp.path, tp.container_workspace))
    /\ (tp.translated.err # "unset" /\ tp.validated # "unset") =>
          ((tp.validated = "false") <=> (tp.translated.err = "ValueError"))

\* C9 (as claimed): for a path below the source root, translate_path returns the
\* target root followed by the relative components, joined with the target
\* root's own separator convention (backslashes for a backslash-style root,
\* the separator of the operating system for a slash-style root).
C9_TranslatedInTargetConvention ==
    (/\ tp.translated.err = "none"
     /\ IsDescendant(tp.path, tp.container_workspace)
     /\ RelComponents(tp.path, tp.container_workspace) # <<>>) =>
        tp.translated.path =
            JoinUnder(tp.host_workspace, RelComponents(tp.path, tp.container_workspace))

(***************************************************************************)
(* Claims about copy_files and the mailbox protocol (checked under Spec).  *)
(***************************************************************************)
RequesterWrites == SelectSeq(clip, LAMBDA c : c.by = "requester")

WatcherWrites == SelectSeq(clip, LAMBDA c : c.by = "watcher")

\* The caller's paths in absolute canonical form, not translated.
OriginalPaths == [i \in 1..Len(rq.file_paths) |-> Resolve(rq.file_paths[i])]

\* copy_files ended with the outcome o of a direct write.
EndedWith(o) ==
    IF o = "raise" THEN rq.err = "RuntimeError" /\ rq.ret = "none"
    ELSE rq.ret = o /\ rq.err = "none"

\* The requester made one direct write, with the original paths, and ended
\* with its outcome.
FellBackToDirect ==
    /\ Len(RequesterWrites) = 1
    /\ RequesterWrites[1].paths = OriginalPaths
    /\ EndedWith(RequesterWrites[1].outcome)

\* Nothing outside the requester was touched.
NoSideEffect ==
    /\ clip = <<>>
    /\ DOMAIN mailbox = {}
    /\ evq = <<>>
    /\ passes = <<>>

\* Both workspace roots are set in the requester's environment.
BothRootsSet == env.container_workspace # Unset /\ env.host_workspace # Unset

AllRegularFiles == \A i \in 1..Len(rq.file_paths) : IsFile(rq.file_paths[i])

IsResultName(name) == StartsWith(name, <<"fileclip_", "results_">>)

\* No open() in the mailbox has failed.
NoIOError == \A h \in hist : h.fact # "oserror"

\* C1 (as claimed, for the runs in which no wait of the requester expires and no
\* file operation fails): when an observing watcher's clipboard write for the
\* request succeeded and its success result was written before any timeout,
\* copy_files returns true and the requester makes no direct write.
C1_WatcherSuccessReturned ==
    (/\ rq.pc = "done"
     /\ env.watching
     /\ ~rq.timed_out
     /\ NoIOError
     /\ \E i \in 1..Len(WatcherWrites) : WatcherWrites[i].outcome = "true"
     /\ [fact |-> "result_in_time", id |-> CopyId, ok |-> TRUE] \in hist)
    => (rq.ret = "true" /\ RequesterWrites = <<>>)

\* C2: when the probe fails (ping not consumed in time) or the wait for the
\* result expires, copy_files makes the direct write with the original
\* untranslated paths and ends with exactly that write's outcome.
C2_TimeoutFallsBackToDirect ==
    (rq.pc = "done" /\ (rq.probe = "false" \/ rq.results = TimeoutRecord))
    => FellBackToDirect

C2_Witness ==
    /\ rq.pc = "done"
    /\ rq.results = TimeoutRecord
    /\ rq.probe = "true"
    /\ rq.ret = "true"
    /\ OriginalPaths # rq.translated

\* C3: when the result the requester read has success = false, copy_files makes
\* the direct write with the original paths and ends with that write's outcome.
C3_WatcherFailureFallsBack ==
    (/\ rq.pc = "done"
     /\ rq.results.complete
     /\ rq.results # TimeoutRecord
     /\ ~rq.results.success)
    => FellBackToDirect

C3_Witness ==
    /\ rq.pc = "done"
    /\ rq.results.complete
    /\ rq.results # TimeoutRecord
    /\ rq.results.message = <<"Failed to copy files">>
    /\ rq.ret = "true"

\* C4: a call whose list holds an entry that is no existing regular file ends
\* with the path-not-found error and without any side effect: no clipboard
\* write, no file in the mailbox, no watcher pass.
C4_InvalidPathFailsBeforeSideEffects ==
    (rq.pc # "idle" /\ ~AllRegularFiles)
    => (/\ rq.pc = "done"
        /\ rq.err = "FileNotFoundError"
        /\ rq.ret = "none"
        /\ NoSideEffect)

C4_Witness ==
    /\ rq.pc = "done"
    /\ rq.err = "FileNotFoundError"
    /\ Len(rq.file_paths) = 2
    /\ IsFile(rq.file_paths[1])
    /\ ~IsFile(rq.file_paths[2])
    /\ WatcherMode(rq.use_watcher, env)
    /\ BothRootsSet
    /\ env.watching

\* C5: a call with an empty list returns false without raising and without any
\* side effect, whatever the watcher mode and the environment.
C5_EmptyListReturnsFalse ==
    (rq.pc # "idle" /\ rq.file_paths = <<>>)
    => (/\ rq.pc = "done"
        /\ rq.ret = "false"
        /\ rq.err = "none"
        /\ NoSideEffect)

C5_Witness ==
    /\ rq.pc = "done"
    /\ rq.file_paths = <<>>
    /\ rq.ret = "false"
    /\ WatcherMode(rq.use_watcher, env)
    /\ ~BothRootsSet

\* C6: when the call engages watcher mode (its list passed validation and is
\* not empty, the sandbox is detected and the watcher is enabled) and a
\* workspace root is not configured, it fails with the configuration error and
\* has written no ping or request file and made no clipboard write.
C6_ConfigErrorForValidatedList ==
    (/\ rq.pc # "idle"
     /\ WatcherMode(rq.use_watcher, env)
     /\ ~BothRootsSet
     /\ rq.file_paths # <<>>
     /\ AllRegularFiles)
    => (/\ rq.pc = "done"
        /\ rq.err = "ValueError_config"
        /\ rq.ret = "none"
        /\ NoSideEffect)

C6_Witness ==
    /\ rq.pc = "done"
    /\ rq.err = "ValueError_config"
    /\ env.container_workspace # Unset
    /\ env.host_workspace = Unset
    /\ env.watching

\* C7 (as claimed): in watcher mode with both roots configured, a validated
\* list with a path outside the container root's directory tree aborts the call
\* with the out-of-scope error before anything is written or copied.
C7_OutOfScopeAbortsCall ==
    (/\ rq.pc # "idle"
     /\ WatcherMode(rq.use_watcher, env)
     /\ BothRootsSet
     /\ rq.file_paths # <<>>
     /\ AllRegularFiles
     /\ \E i \in 1..Len(rq.file_paths) :
           ~IsDescendant(rq.file_paths[i], env.container_workspace))
    => (/\ rq.pc = "done"
        /\ rq.err = "ValueError_scope"
        /\ NoSideEffect)

\* C10 (as claimed): no result file is ever handed to request processing.
C10_OnlyRequestFilesProcessed ==
    \A i \in 1..Len(passes) : ~IsResultName(passes[i])

(***************************************************************************)
(* Claims about who changes the files of the mailbox (checked under Spec). *)
(* A step of the requester changes rq; a step of the watcher leaves it.    *)
(***************************************************************************)
\* The result files of the requester's two requests.
RequesterResultNames == {ResultName(PingId), ResultName(CopyId)}

\* C11 (as claimed): a result file, once written completely by the watcher, is
\* never overwritten or deleted by a step of the watcher; it stays in the
\* mailbox with the same content until the requester removes it.
C11_WatcherKeepsItsResults ==
    [][\A n \in DOMAIN mailbox :
          (n \in RequesterResultNames /\ mailbox[n].complete /\ rq' = rq)
          => (n \in DOMAIN mailbox' /\ mailbox'[n] = mailbox[n])]_vars

\* C12 (as claimed): no step of the requester removes a request file (ping or
\* copy_files) from the mailbox.
C12_RequestsDeletedOnlyByWatcher ==
    [][\A n \in DOMAIN mailbox :
          (~IsResultName(n) /\ n \notin DOMAIN mailbox') => rq' = rq]_vars

\* C12 (amended): the only request file a step of the requester removes is its
\* own ping, and only when the probe ends unacknowledged (the finally clause
\* of check_watcher after the probe timeout); the copy_files request is
\* removed by no step of the requester.
C12_RequesterRemovesOnlyItsPing ==
    [][\A n \in DOMAIN mailbox :
          (~IsResultName(n) /\ n \notin DOMAIN mailbox' /\ rq' # rq)
          => (/\ n = RequestName(PingId)
              /\ rq.pc = "ping_poll"
              /\ rq'.probe = "false")]_vars

\* The probe timed out and the requester itself removed the ping, which no
\* pass of the watcher ever took up.
C12_Witness ==
    /\ rq.probe = "false"
    /\ rq.timed_out
    /\ passes = <<>>
    /\ RequestName(PingId) \notin DOMAIN mailbox

\* C13 (as claimed, for the runs in which no file operation fails): whenever
\* the requester reads a result for its copy_files request, the result has
\* success = true exactly when the watcher's clipboard write for that request
\* completed and returned true.
C13_ResultReadIsAccurate ==
    (rq.results.complete /\ rq.results # TimeoutRecord /\ NoIOError)
    => (GetOr(rq.results, "success", FALSE)
          <=> \E i \in 1..Len(WatcherWrites) : WatcherWrites[i].outcome = "true")

(***************************************************************************)
(* Claims about one pass of the watcher (checked under SpecWatcher).       *)
(***************************************************************************)
\* The watcher is about to unlink a request file that is still in the mailbox.
AboutToUnlinkRequest ==
    /\ w.pc = "unlink"
    /\ ~IsResultName(w.file_path)
    /\ w.file_path \in DOMAIN mailbox

\* The result of the running pass lies complete in the mailbox.
ResultFileWritten ==
    /\ ResultName(w.request_id) \in DOMAIN mailbox
    /\ mailbox[ResultName(w.request_id)] = w.result

\* C14 (as claimed): whenever the watcher removes a request file, a complete
\* result file for that request has been written first.
C14_ResultWrittenBeforeUnlink ==
    AboutToUnlinkRequest => (w.wrote /\ ResultFileWritten)

\* C14 (amended): whenever the watcher removes a request file, either the
\* result file for that request has been written completely first, or
\* write_result failed to open it (an OSError, which it logs) and the request
\* is removed without a result.
C14_ResultWrittenBeforeUnlinkUnlessIOError ==
    AboutToUnlinkRequest =>
        IF w.wrote THEN ResultFileWritten ELSE ~NoIOError

C14_Witness ==
    /\ AboutToUnlinkRequest
    /\ w.wrote
    /\ ResultFileWritten
    /\ w.request_id = CopyId
    /\ w.result.success

(***************************************************************************)
(* Claims about the watcher's answers in the protocol (checked under Spec).*)
(***************************************************************************)
\* The watcher's clipboard write for the request has completed and returned
\* true.
WatcherWriteReturnedTrue ==
    \E i \in 1..Len(WatcherWrites) : WatcherWrites[i].outcome = "true"

\* C15: a result with success = true for the copy_files request, whether held
\* by the watcher for writing, lying in the mailbox or read by the requester,
\* exists only after the watcher's clipboard write for that request has
\* completed and returned true; none exists while the write is pending, has
\* failed or was never attempted.
C15_SuccessOnlyAfterClipboardWrite ==
    /\ (/\ ResultName(CopyId) \in DOMAIN mailbox
        /\ GetOr(mailbox[ResultName(CopyId)], "success", FALSE))
       => WatcherWriteReturnedTrue
    /\ (/\ w.pc \in {"write_open", "write_dump", "unlink"}
        /\ w.request_id = CopyId
        /\ w.result.success)
       => WatcherWriteReturnedTrue
    /\ GetOr(rq.results, "success", FALSE) => WatcherWriteReturnedTrue

C15_Witness ==
    /\ ResultName(CopyId) \in DOMAIN mailbox
    /\ GetOr(mailbox[ResultName(CopyId)], "success", FALSE)
    /\ WatcherWriteReturnedTrue
    /\ w.pc = "unlink"
    /\ w.file_path = RequestName(CopyId)

Request == mailbox[ReqFile]

\* The first pass over the request file is running.
FirstPassRunning ==
    w.pc # "idle" /\ w.file_path = ReqFile /\ Count(passes, ReqFile) = 1

\* C17: under repeated delivery of the creation notification for the same
\* request file, only the first pass finds the file and decodes it: the
\* watcher makes at most one clipboard write, the request file is gone when
\* that first pass is over, and every later pass finds no file and copies
\* nothing.
C17_AtMostOncePerRequest ==
    /\ Len(WatcherWrites) <= 1
    /\ (ReqFile \in DOMAIN mailbox /\ Count(passes, ReqFile) >= 1)
       => FirstPassRunning
    /\ (w.pc = "clip" /\ w.file_path = ReqFile) => (FirstPassRunning /\ WatcherWrites = <<>>)

\* The notification was delivered three times: the first pass copied, and the
\* two later ones found no file.
C17_Witness ==
    /\ Count(passes, ReqFile) = 3
    /\ w.pc = "unlink"
    /\ w.file_path = ReqFile
    /\ w.result.message = <<"Error: ", "FileNotFoundError">>
    /\ Len(WatcherWrites) = 1
    /\ WatcherWrites[1].outcome = "true"

\* The first pass has decoded the request and built its result.
FirstPassAnswering ==
    /\ FirstPassRunning
    /\ w.pc \in {"write_open", "write_dump", "unlink"}
    /\ ReqFile \in DOMAIN mailbox

\* The request in the mailbox is a well-formed copy_files request.
IsCopyRequest ==
    /\ Request.complete
    /\ Get(Request, "action") = "copy_files"
    /\ Get(Request, "request_id") # None
    /\ Get(Request, "sender") # None

\* The paths the request lists, those of them that are regular files on the
\* host, and the others, each in request order.
ListedPaths == GetOr(Request, "paths", <<>>)

ExistingListed ==
    SelectSeq(ListedPaths, LAMBDA p : p \in HostFiles(env.host_workspace))

MissingListed ==
    SelectSeq(ListedPaths, LAMBDA p : p \notin HostFiles(env.host_workspace))

\* One diagnostic per path that is no regular file, in request order.
ExpectedDiagnostics ==
    [i \in 1..Len(MissingListed) |->
        <<"Invalid or inaccessible path: ", MissingListed[i]>>]

\* C18: for a copy_files request listing at least one existing regular file,
\* the watcher makes one clipboard write with exactly the valid paths in
\* request order; when the write returns a boolean the result has success
\* equal to it, on success a message naming the number of valid files, and
\* errors holding exactly one diagnostic per invalid path (none when all are
\* valid); that result is what write_result puts into the result file.
C18_PartialSuccessReported ==
    (FirstPassAnswering /\ IsCopyRequest /\ ExistingListed # <<>>)
    => (/\ Len(WatcherWrites) = 1
        /\ WatcherWrites[1].paths = ExistingListed
        /\ WatcherWrites[1].outcome # "raise"
           => (/\ w.result.success = (WatcherWrites[1].outcome = "true")
               /\ w.result.success
                  => w.result.message =
                        <<"Copied ", NumStr(Len(ExistingListed)), " file(s)">>
               /\ w.result.errors = ExpectedDiagnostics)
        /\ w.result.request_id = Request.request_id
        /\ w.result.sender = Request.sender
        /\ w.wrote => ResultFileWritten)

\* Two existing files and a missing one between them: success, "Copied 2
\* file(s)", one diagnostic, written to the result file.
C18_Witness ==
    /\ FirstPassAnswering
    /\ IsCopyRequest
    /\ ListedPaths = <<HP_g, HP_n, HP_f>>
    /\ WatcherWrites = <<[by |-> "watcher", paths |-> <<HP_g, HP_f>>,
                          outcome |-> "true"]>>
    /\ w.result.message = <<"Copied ", "2", " file(s)">>
    /\ Len(w.result.errors) = 1
    /\ w.wrote
    /\ ResultFileWritten

\* The first pass is over: the handler is idle again or busy with a later
\* notification.
FirstPassOver == Count(passes, ReqFile) >= 1 /\ ~FirstPassRunning

\* C19: for a copy_files request in which no listed path is an existing
\* regular file (the list may be empty or absent), the watcher makes no
\* clipboard write and answers success = false, "No valid files to copy" and
\* one diagnostic per listed path; that result is what write_result puts into
\* the result file, and the request file is gone when the pass is over.
C19_NoValidFilesFails ==
    /\ (FirstPassAnswering /\ IsCopyRequest /\ ExistingListed = <<>>)
       => (/\ clip = <<>>
           /\ w.result = [complete |-> TRUE, sender |-> Request.sender,
                          request_id |-> Request.request_id, success |-> FALSE,
                          message |-> <<"No valid files to copy">>,
                          errors |-> ExpectedDiagnostics]
           /\ Len(w.result.errors) = Len(ListedPaths)
           /\ w.wrote => ResultFileWritten)
    /\ FirstPassOver => ReqFile \notin DOMAIN mailbox

\* A missing file and a directory are listed: two diagnostics, no copy.
C19_Witness ==
    /\ FirstPassAnswering
    /\ IsCopyRequest
    /\ ListedPaths = <<HP_n, HP_s>>
    /\ w.pc = "unlink"
    /\ w.wrote
    /\ ResultFileWritten
    /\ Len(w.result.errors) = 2
    /\ clip = <<>>

\* The request has no paths key at all.
C19_WitnessAbsentList ==
    /\ FirstPassAnswering
    /\ IsCopyRequest
    /\ "paths" \notin DOMAIN Request
    /\ w.pc = "unlink"
    /\ w.wrote
    /\ w.result.message = <<"No valid files to copy">>

\* The result files in the mailbox.
ResultFiles == {n \in DOMAIN mailbox : IsResultName(n)}

\* C20: a request file whose content does not decode as JSON gets exactly one
\* result, with success = false, the message "Invalid JSON" and sender and
\* request_id "unknown", written under the placeholder result name before the
\* request file is removed; no clipboard write is made.
C20_InvalidJsonAnswered ==
    (FirstPassAnswering /\ ~Request.complete)
    => (/\ clip = <<>>
        /\ w.request_id = "unknown"
        /\ w.result = [complete |-> TRUE, sender |-> "unknown",
                       request_id |-> "unknown", success |-> FALSE,
                       message |-> <<"Invalid JSON">>, errors |-> <<>>]
        /\ w.wrote => (/\ ResultFiles = {ResultName("unknown")}
                       /\ mailbox[ResultName("unknown")] = w.result))

C20_Witness ==
    /\ FirstPassAnswering
    /\ ~Request.complete
    /\ w.pc = "unlink"
    /\ w.wrote
    /\ ResultFiles = {ResultName("unknown")}
    /\ mailbox[ResultName("unknown")].message = <<"Invalid JSON">>

\* The decoded request names its sender and its request_id.
HasBothFields ==
    Get(Request, "request_id") # None /\ Get(Request, "sender") # None

\* C21: a request that decodes but lacks sender or request_id is answered
\* success = false, "Missing request_id or sender", whatever its action; one
\* with both fields whose action is neither ping nor copy_files is answered
\* success = false, "Unknown action: <action>".  In both cases no clipboard
\* write is made, the result is what write_result puts into the result file,
\* and the request file is gone when the pass is over.
C21_MissingFieldOrUnknownAction ==
    /\ (FirstPassAnswering /\ Request.complete /\ ~HasBothFields)
       => (/\ ~w.result.success
           /\ w.result.message = <<"Missing request_id or sender">>
           /\ clip = <<>>
           /\ w.wrote => ResultFileWritten)
    /\ (/\ FirstPassAnswering
        /\ Request.complete
        /\ HasBothFields
        /\ Get(Request, "action") \notin {"ping", "copy_files"})
       => (/\ ~w.result.success
           /\ w.result.message = <<"Unknown action: ", Get(Request, "action")>>
           /\ clip = <<>>
           /\ w.wrote => ResultFileWritten)
    /\ (FirstPassOver /\ clip = <<>>) => ReqFile \notin DOMAIN mailbox

\* A ping without a sender has been answered with the missing-field failure.
C21_Witness ==
    /\ FirstPassAnswering
    /\ Request.complete
    /\ Get(Request, "action") = "ping"
    /\ Get(Request, "sender") = None
    /\ w.pc = "unlink"
    /\ w.wrote
    /\ ~w.result.success

\* An unknown action has been answered.
C21_WitnessUnknownAction ==
    /\ FirstPassAnswering
    /\ Get(Request, "action") = "move_files"
    /\ w.pc = "unlink"
    /\ w.wrote
    /\ w.result.message = <<"Unknown action: ", "move_files">>

\* C22: for a request that carries both sender and request_id the result
\* echoes them unchanged and is stored under the result name built from the
\* request_id of the request; a ping is answered success = true, "Ping
\* acknowledged", without any clipboard write.
C22_ResultEchoesRequest ==
    (FirstPassAnswering /\ Request.complete /\ HasBothFields)
    => (/\ w.result.sender = Request.sender
        /\ w.result.request_id = Request.request_id
        /\ w.wrote
           => (LET name == <<"fileclip_", "results_", Request.request_id, ".json">>
               IN  name \in DOMAIN mailbox /\ mailbox[name] = w.result)
        /\ Get(Request, "action") = "ping"
           => (/\ w.result.success
               /\ w.result.message = <<"Ping acknowledged">>
               /\ w.result.errors = <<>>
               /\ clip = <<>>))

\* The ping of another sender, whose request_id differs from the id in the
\* name of the request file, has been acknowledged under its own request_id.
C22_Witness ==
    /\ FirstPassAnswering
    /\ Request.complete
    /\ Request.action = "ping"
    /\ Request.request_id = PingId
    /\ Request.sender = "other"
    /\ w.pc = "unlink"
    /\ w.wrote
    /\ ResultName(PingId) \in DOMAIN mailbox
    /\ mailbox[ResultName(PingId)].success

(***************************************************************************)
(* C23.                                                                    *)
(***************************************************************************)
\* C23 (as claimed): whatever the request file holds and whatever error occurs
\* inside a pass, the pass ends with the handler back at idle: while the
\* observer runs, the thread that calls the handler has not ended, so every
\* request file created afterwards is still processed.
C23_WatcherSurvivesEveryPass == observer = "started" => w.pc # "raised"

(***************************************************************************)
(* C24.                                                                    *)
(***************************************************************************)
\* C24: the observer runs until KeyboardInterrupt; it is then stopped, after
\* that joined, and in no other order; a pass starts only while the observer
\* runs, and when join has returned (main logs "stopped" and returns) the
\* handler is in no pass.
C24_StopThenJoinAndNoPassAfterStop ==
    [][/\ observer' # observer =>
             \/ observer = "started" /\ observer' = "stopped"
             \/ observer = "stopped" /\ observer' = "joined"
       /\ Len(passes') > Len(passes) => observer = "started"
       /\ observer' = "joined" => w'.pc \in {"idle", "raised"}]_vars

\* The watcher has exited after a pass, and a creation event that was queued
\* when the observer was stopped has started no pass.
C24_Witness == observer = "joined" /\ passes # <<>> /\ evq # <<>>

C26_PollReadsWithoutNotification ==
    (/\ rq.pc = "wait"
     /\ ResultName(CopyId) \in DOMAIN mailbox
     /\ mailbox[ResultName(CopyId)].complete
     /\ rq.snap)
    => rq.found

TranslatedOnHost ==
    SelectSeq(rq.translated, LAMBDA p : p \in HostFiles(env.host_workspace))

ExchangeCleared ==
    /\ <<"fileclip_", CopyId, ".json">> \notin DOMAIN mailbox
    /\ <<"fileclip_", "results_", CopyId, ".json">> \notin DOMAIN mailbox

\* C28: once copy_files has returned after reading the watcher's result for its
\* request, the mailbox comes to hold neither the request file nor the result
\* file of that request id, and it stays that way; the requester's read of
\* the result removes the result file, and the watcher's pass over a file
\* ends with that file removed.
C28_ExchangeLeavesNoFiles ==
    /\ (rq.pc = "done" /\ rq.results.complete /\ rq.results # TimeoutRecord)
         ~> [](ExchangeCleared)
    /\ [][(rq'.results # rq.results /\ rq'.results # TimeoutRecord)
            => <<"fileclip_", "results_", CopyId, ".json">> \notin DOMAIN mailbox']_vars
    /\ [][(w.pc = "unlink" /\ w'.pc = "idle")
            => w.file_path \notin DOMAIN mailbox']_vars

\* The call has returned true on the watcher's result, the watcher has nothing
\* left to do, and both files are gone.
C28_Witness ==
    /\ rq.pc = "done"
    /\ rq.ret = "true"
    /\ rq.results.complete
    /\ rq.results # TimeoutRecord
    /\ w.pc = "idle"
    /\ evq = <<>>
    /\ ExchangeCleared

(***************************************************************************)
(* C29.                                                                    *)
(***************************************************************************)
\* C29 (as claimed): when the result the requester read carries errors
\* entries, the call prints every entry as a diagnostic, also when success is
\* true.
C29_EveryErrorSurfaced ==
    (rq.results.complete /\ rq.results # TimeoutRecord)
    => \A i \in 1..Len(GetOr(rq.results, "errors", <<>>)) :
          \E j \in 1..Len(rq.printed) :
             rq.printed[j] = <<"Error: ", rq.results.errors[i]>>

(***************************************************************************)
(* C30 (checked under SpecJson).                                           *)
(***************************************************************************)
\* C30: the request the watcher reads from the file the requester wrote has
\* the request_id, the sender, the action and the paths (in their order) that
\* the requester wrote, and the id between "fileclip_" and ".json" in the
\* file's name is the request_id inside the file.
C30_RequestRoundTrip ==
    tp.stage = "loaded"
    => /\ tp.loaded.ok
       /\ tp.loaded.request_id = tp.request_id
       /\ tp.loaded.sender = tp.sender
       /\ tp.loaded.action = <<"copy_files">>
       /\ tp.loaded.paths = tp.paths
       /\ tp.name[1] = "fileclip_"
       /\ tp.name[Len(tp.name)] = ".json"
       /\ SubSeq(tp.name, 2, Len(tp.name) - 1) = tp.loaded.request_id

\* A request was read back whose paths hold a backslash before an n and a
\* quote.
C30_Witness ==
    /\ tp.stage = "loaded"
    /\ tp.loaded.ok
    /\ tp.loaded.paths = <<<<"C", ":", Backslash, "n">>, <<Quote, "a">>>>

(***************************************************************************)
(* C31 (checked under SpecDirect).                                         *)
(***************************************************************************)
\* sub occurs in text as a run of consecutive characters.
Contains(text, sub) ==
    \E i \in 1..(Len(text) - Len(sub) + 1) : SubSeq(text, i, i + Len(sub) - 1) = sub

\* Every file of the call stands in the run r: as a quoted path in the
\* command, or as file:// and the path in the input of the utility.
AllRepresented(r) ==
    \A i \in 1..Len(tp.file_paths) :
       \/ Contains(r.cmd, <<"\"">> \o tp.file_paths[i] \o <<"\"">>)
       \/ Contains(<<"LF">> \o r.input \o <<"LF">>,
                   <<"LF", "file://">> \o tp.file_paths[i] \o <<"LF">>)

SupportedPlatform == tp.settings.platform \in {"win32", "darwin", "linux"}

\* Some utility the settings allow would do the write.
SomeUtilitySucceeds ==
    IF tp.settings.platform = "linux"
    THEN \/ tp.settings.WAYLAND_DISPLAY /\ tp.settings.wl = "ok"
         \/ tp.settings.DISPLAY /\ tp.settings.xc = "ok"
    ELSE tp.settings.sh = "ok"

\* C31 (as claimed): a direct write of a nonempty list of existing files on a
\* supported platform, and on Linux with any display settings and utilities
\* among which some utility succeeds, reports success and invokes exactly one
\* external command, in which every file is represented.
C31_OneCommandAndSuccess ==
    (tp.stage = "done" /\ SupportedPlatform /\ SomeUtilitySucceeds)
    => /\ tp.ret = "true"
       /\ Len(tp.runs) = 1
       /\ AllRepresented(tp.runs[1])

\* The first utility the call tries (wl-copy under WAYLAND_DISPLAY, else
\* xclip under DISPLAY) succeeds, or wl-copy is missing or times out and
\* xclip, under DISPLAY, succeeds.
TriedUtilitySucceeds ==
    IF tp.settings.platform = "linux"
    THEN \/ tp.settings.WAYLAND_DISPLAY /\ tp.settings.wl = "ok"
         \/ /\ tp.settings.WAYLAND_DISPLAY =>
                  tp.settings.wl \in {"FileNotFoundError", "TimeoutExpired"}
            /\ tp.settings.DISPLAY
            /\ tp.settings.xc = "ok"
    ELSE tp.settings.sh = "ok"

\* C31 (amended): the call reports success exactly when the utility it tries
\* succeeds; it then has run at most two commands, the last one is the one
\* that succeeded and holds every file, and a command before it is a wl-copy
\* that was missing or timed out.
C31_SuccessOfTheTriedUtility ==
    (tp.stage = "done" /\ SupportedPlatform)
    => /\ tp.ret = "true" <=> TriedUtilitySucceeds
       /\ tp.ret = "true" =>
            /\ Len(tp.runs) \in {1, 2}
            /\ tp.runs[Len(tp.runs)].outcome = "ok"
            /\ AllRepresented(tp.runs[Len(tp.runs)])
            /\ Len(tp.runs) = 2 =>
                 /\ tp.runs[1].cmd[1] = "wl-copy"
                 /\ tp.runs[1].outcome \in {"FileNotFoundError", "TimeoutExpired"}
                 /\ tp.runs[2].cmd[1] = "xclip"

\* wl-copy timed out and xclip then wrote two files.
C31_Witness ==
    /\ tp.stage = "done"
    /\ tp.ret = "true"
    /\ Len(tp.runs) = 2
    /\ tp.runs[1].outcome = "TimeoutExpired"
    /\ Len(tp.file_paths) = 2
    /\ tp.file_paths[1] # tp.file_paths[2]

(***************************************************************************)
(* C32.                                                                    *)
(***************************************************************************)
\* C32 (as claimed): when a watcher-mode call of copy_files has returned, on
\* whichever path, neither its ping file nor its copy_files request file is
\* in the mailbox.
C32_NoRequestLeftOnReturn ==
    (rq.pc = "done" /\ rq.probe \in {"true", "false"})
    => /\ <<"fileclip_", PingId, ".json">> \notin DOMAIN mailbox
       /\ <<"fileclip_", CopyId, ".json">> \notin DOMAIN mailbox

(***************************************************************************)
(* C33.                                                                    *)
(***************************************************************************)
\* No pass of the watcher took up the ping file.
PingNotTaken == \A i \in 1..Len(passes) : passes[i] # <<"fileclip_", PingId, ".json">>

\* C33: when check_watcher has returned false and no pass of the watcher took
\* up the ping, the mailbox holds no file matching fileclip_*.json: neither
\* the ping nor a result, after a timeout and after an I/O error alike.
C33_FailedProbeLeavesNothing ==
    (rq.probe = "false" /\ PingNotTaken)
    => \A name \in DOMAIN mailbox :
          ~(name[1] = "fileclip_" /\ name[Len(name)] = ".json")

\* The probe timed out beside a watcher that observes the mailbox and took up
\* nothing, and the call has returned.
C33_Witness ==
    /\ rq.pc = "done"
    /\ rq.probe = "false"
    /\ rq.timed_out
    /\ env.watching
    /\ PingNotTaken
    /\ evq # <<>>

\* The probe ended on an I/O error.
C33_WitnessIOError ==
    /\ rq.probe = "false"
    /\ ~rq.timed_out
    /\ ~NoIOError

(***************************************************************************)
(* C34.                                                                    *)
(***************************************************************************)
\* C34 (as claimed): a pass of the watcher over a file the requester writes
\* (its ping, its copy_files request) reads the complete JSON record: the
\* pass never answers "Invalid JSON".
C34_RequestReadComplete ==
    (/\ w.pc \in {"write_open", "write_dump", "unlink"}
     /\ w.file_path \in {<<"fileclip_", PingId, ".json">>, <<"fileclip_", CopyId, ".json">>})
    => w.result.message # <<"Invalid JSON">>

(***************************************************************************)
(* C35 (checked under SpecService).                                        *)
(***************************************************************************)
\* C35 (as claimed): two different requests never cause a write to the same
\* result file, also when both are malformed: the pass over the later request
\* is never about to write the result file that the pass over a first,
\* undecodable request has left in the mailbox.
C35_NoSharedResultFile ==
    ~(/\ w.pc = "write_open"
      /\ w.file_path = LaterFile
      /\ <<"fileclip_", "results_", w.request_id, ".json">> \in DOMAIN mailbox
      /\ mailbox[<<"fileclip_", "results_", w.request_id, ".json">>].complete
      /\ mailbox[<<"fileclip_", "results_", w.request_id, ".json">>].message
            = <<"Invalid JSON">>)

\* The names whose file differs between the mailboxes a and b.
Touched(a, b) ==
    {n \in DOMAIN a \cup DOMAIN b :
        \/ n \notin DOMAIN a
        \/ n \notin DOMAIN b
        \/ a[n] # b[n]}

\* C35 (amended): a pass creates, overwrites or deletes only the file of the
\* event it handles and the result file named with the request_id it took
\* from that file ("unknown" when the file does not decode or an error was
\* caught); the id is the one inside the file, not the one in its name; and
\* a pass starts only when the handler is idle.
C35_PassTouchesItsOwnFiles ==
    /\ [][w' # w =>
            \/ Touched(mailbox, mailbox')
                 \subseteq {w.file_path,
                            <<"fileclip_", "results_", w.request_id, ".json">>}
            \/ w.pc = "idle"]_vars
    /\ [][Len(passes') > Len(passes) => w.pc = "idle" /\ mailbox' = mailbox]_vars
    /\ [](( /\ w.pc \in {"write_open", "write_dump"}
            /\ w.file_path \in DOMAIN mailbox
            /\ mailbox[w.file_path].complete)
          => \/ w.request_id = "unknown" /\ w.in_except
             \/ w.request_id = Get(mailbox[w.file_path], "request_id"))

\* The pass over the later request, read before it was complete, has opened
\* fileclip_results_unknown.json after the pass over the first request.
C35_Witness ==
    /\ w.pc = "write_dump"
    /\ w.file_path = LaterFile
    /\ w.request_id = "unknown"
    /\ Len(passes) >= 2
    /\ passes[1] = ReqFile

WatcherModeOff ==
    \/ ~env.is_container
    \/ rq.use_watcher = "false"
    \/ rq.use_watcher = None /\ env.FILECLIP_USE_WATCHER = "false"

\* C37: a copy_files call made with the watcher mode off or outside a container
\* goes straight to the direct clipboard write, whatever workspace roots are
\* configured: the mailbox stays empty (no ping, no request file), the watcher
\* is handed nothing, no probe and no wait for a result take place, no
\* configuration or scope error is raised, and a call that has returned with
\* a non-empty valid list made exactly one direct write, with the resolved
\* paths, and ended with that write's outcome.
C37_DirectModeLeavesMailboxAlone ==
    (rq.pc # "idle" /\ WatcherModeOff)
    => /\ DOMAIN mailbox = {}
       /\ evq = <<>>
       /\ passes = <<>>
       /\ rq.pc \in {"direct", "done"}
       /\ rq.probe = "none"
       /\ rq.results = Partial
       /\ ~rq.found
       /\ rq.err \notin {"ValueError_config", "ValueError_scope"}
       /\ WatcherWrites = <<>>
       /\ (rq.pc = "done" /\ rq.valid_paths # <<>>) => FellBackToDirect

C37_Witness ==
    /\ rq.pc = "done"
    /\ env.is_container
    /\ env.watching
    /\ rq.use_watcher = "false"
    /\ env.FILECLIP_USE_WATCHER = "true"
    /\ env.container_workspace = Unset
    /\ Len(RequesterWrites) = 1
    /\ rq.ret = "true"

C37_WitnessNoContainer ==
    /\ rq.pc = "done"
    /\ ~env.is_container
    /\ rq.use_watcher = "true"
    /\ env.container_workspace # Unset
    /\ env.host_workspace # Unset
    /\ Len(RequesterWrites) = 1

(***************************************************************************)
(* C38: the copy made by the watcher.                                      *)
(***************************************************************************)
\* C38: the copy_files call of a processing pass is a direct clipboard write
\* of the pass's valid paths and nothing else, also on a watcher host that is
\* detected as a container with the watcher mode on by default: the step
\* leaves the mailbox and the queue of creation events as they are, no
\* requester-side step (ping, request, wait) is ever taken, and the mailbox
\* never holds a request or ping file other than the one being processed.
C38_WatcherCopyNeverReenters ==
    /\ [][(w.pc = "clip" /\ w'.pc # "clip")
            => /\ w'.pc = "write_open"
               /\ Len(clip') = Len(clip) + 1
               /\ SubSeq(clip', 1, Len(clip)) = clip
               /\ clip'[Len(clip')].by = "watcher"
               /\ clip'[Len(clip')].paths = w.valid_paths
               /\ mailbox' = mailbox
               /\ evq' = evq]_vars
    /\ [](/\ rq = RqInit
          /\ \A n \in DOMAIN mailbox : n = ReqFile \/ n[2] = "results_")

C38_Witness ==
    /\ env.host_is_container
    /\ env.FILECLIP_USE_WATCHER = None
    /\ w.pc = "write_open"
    /\ IsCopyRequest
    /\ clip # <<>>
    /\ clip[Len(clip)].by = "watcher"
    /\ clip[Len(clip)].outcome = "true"
    /\ DOMAIN mailbox = {ReqFile}

(***************************************************************************)
(* C39: the watcher comes to rest.                                         *)
(***************************************************************************)
\* The watcher's handler has nothing to do and nothing queued, and the
\* mailbox holds no request or ping file.
WatcherAtRest ==
    /\ w.pc = "idle"
    /\ evq = <<>>
    /\ \A n \in DOMAIN mailbox : n[2] = "results_"

\* C39: around one copy_files call the watcher makes a bounded number of
\* processing passes (six at most, the passes over files it wrote itself
\* included), every creation event it is handed belongs to a file somebody
\* created (a rewrite of an existing file queues none), and from some point
\* on it stays idle with an empty event queue and a mailbox without request
\* files.
C39_WatcherComesToRest ==
    /\ <>[]WatcherAtRest
    /\ [](Len(passes) + Len(evq) <= 6)
    /\ [][\A n \in DOMAIN mailbox : Count(evq', n) <= Count(evq, n)]_vars

\* The watcher at rest after six passes, two of them over result files it
\* wrote itself, the call returned.
C39_Witness ==
    /\ WatcherAtRest
    /\ rq.pc = "done"
    /\ Len(passes) = 6
    /\ Len(SelectSeq(passes, LAMBDA n : n[2] = "results_")) >= 2

(***************************************************************************)
(* C40: what wait_for_results reads and removes.                           *)
(***************************************************************************)
\* The result file of the requester's own request.
OwnResult == <<"fileclip_", "results_", CopyId, ".json">>

\* C40: a step of the waiting requester leaves every other file of the mailbox
\* (the result of the ping, a placeholder result, the request) as it is; it
\* removes its own result file only when it returns the complete content
\* of that file; it leaves the wait either so or with the timeout record and
\* an unchanged mailbox; and while the result file is still being written
\* the wait goes on or times out, the file staying in place.
C40_ReadsOnlyItsCompleteResult ==
    [][(rq.pc = "wait" /\ rq' # rq)
        => /\ \A n \in DOMAIN mailbox \ {OwnResult} :
                n \in DOMAIN mailbox' /\ mailbox'[n] = mailbox[n]
           /\ DOMAIN mailbox' \subseteq DOMAIN mailbox
           /\ \/ /\ rq'.pc = "wait"
                 /\ rq'.results = rq.results
                 /\ mailbox' = mailbox
              \/ /\ rq'.results = TimeoutRecord
                 /\ mailbox' = mailbox
              \/ /\ rq.found
                 /\ OwnResult \in DOMAIN mailbox
                 /\ mailbox[OwnResult].complete
                 /\ rq'.results = mailbox[OwnResult]
                 /\ OwnResult \notin DOMAIN mailbox']_vars

\* The poll has been notified of its result file, which is still being
\* written, while the complete result of another request lies beside it.
C40_Witness ==
    /\ rq.pc = "wait"
    /\ rq.found
    /\ OwnResult \in DOMAIN mailbox
    /\ ~mailbox[OwnResult].complete
    /\ <<"fileclip_", "results_", LaterId, ".json">> \in DOMAIN mailbox
    /\ mailbox[<<"fileclip_", "results_", LaterId, ".json">>].complete

\* The result has been read and removed; the other request's result and the
\* requester's own request file are still there.
C40_WitnessRead ==
    /\ rq.pc = "done"
    /\ rq.results.complete
    /\ rq.results # TimeoutRecord
    /\ OwnResult \notin DOMAIN mailbox
    /\ <<"fileclip_", "results_", LaterId, ".json">> \in DOMAIN mailbox
    /\ mailbox[<<"fileclip_", "results_", LaterId, ".json">>].complete
    /\ <<"fileclip_", CopyId, ".json">> \in DOMAIN mailbox

====
